---- MODULE Spec2Model ----
(***************************************************************************)
(* Model of the deduplicating content store of skie (crates diff-store and *)
(* store): the three tables files, chunks and file_sections, the Persist   *)
(* operations store / store_all and the Fetch operations fetch_by /        *)
(* fetch_many, and the adapter chunk_source that feeds them.               *)
(*                                                                         *)
(* A table is the set of its rows.  Every SQL statement is an operator     *)
(* from a table and a row to the outcome of the statement; a handler is an *)
(* action that runs its statements, in a transaction where the code opens  *)
(* one, and leaves its return value in the variable last.                  *)
(*                                                                         *)
(* The module also holds the chunking pipeline of crate skie-index (a      *)
(* cutter, hashers on a rayon pool, two bounded channels and a collector)  *)
(* and the watcher loop of the service (crate service).                    *)
(***************************************************************************)
EXTENDS Integers, Sequences, FiniteSets, TLC

VARIABLES
    files,      \* table files: rows [file_id, name, path, hash]
    chunks,     \* table chunks: rows [hash, size]
    sections,   \* table file_sections: rows [file_id, chunk_hash, length, offset]
    last,       \* the last call: [op, arg, fault, result, out, old]; out is what
                \* the call returned (for a write: the statements it ran), old
                \* the rows a single store found under its primary key
    firstSize,  \* history: the rows given by the first committed write of each digest
    latest,     \* history: the entry of the latest committed write of each file id
    reindexes,  \* history: the number of reindexes done
    run,        \* per pipeline call: [fn, source, fault, at, channel_size,
                \* num_threads]
    injected,   \* the jobs [job, of] injected into the thread pool from
                \* outside, oldest first; of is the call the job belongs to
    deque,      \* the jobs on the local deque of the thread that runs scope
    par_bridge, \* per call, rx.iter().par_bridge(): [pc, splits], splits the
                \* halves of the bridge other threads may still steal
    stack,      \* per pool thread: the jobs it is in, innermost last
    cutter,     \* per call, the cutter task: [pc, index, cuts, errors, held]
    work,       \* per pool thread: [held, failed], the record a hasher holds and
                \* (history) whether a send of this thread has failed
    rx,         \* per call: the items in the channel (tx, rx), oldest first
    output_rx,  \* per call: the items in the channel (output_tx, output_rx),
                \* oldest first
    collector,  \* per call, the consumer of output_rx: [pc, received, errs,
                \* result, map]
    debouncer,  \* the raw events of the current debounce window, oldest first
    events,     \* the batch the last iteration of the watcher loop received
    os_events,  \* the logical events the last iteration derived from it
    main,       \* main of the service: [pc, exit, received], received the kind
                \* of the last message taken from event_receiver
    previous,   \* history: the last logical event of the iteration before, when
                \* the last event that passed its filter was a Remove
    disk,       \* the files main looks for: [config_dir, config_toml], whether
                \* .config exists and the contents of config.toml (<<>>: no file)
    watched,    \* the directories the debouncer watches
    diff        \* a call of DifferenceEngine::calculate_diff: [pc, source, fault,
                \* at, manifest_map, result]

store == <<files, chunks, sections, last, firstSize, latest, reindexes>>

pipeline ==
    <<run, injected, deque, par_bridge, stack, cutter, work, rx, output_rx, collector>>

watcher == <<debouncer, events, os_events, main, previous, disk, watched>>

vars == <<store, pipeline, watcher, diff>>

\* ------------------------------------------------------------------ bounds

\* longest batch given to store_all
MaxBatch == 2
\* longest key list given to fetch_many
MaxKeys == 2
\* longest byte source given to chunk_source
MaxLen == 3
\* most reindexes in one run
MaxReindex == 2
\* longest byte source given to chunk_source for a new file
MaxSource == 4
\* most error records a collector tells apart
MaxErrors == 2
\* most raw events in one debounce batch
MaxEvents == 3
\* largest channel_size and num_threads of a pipeline call
MaxChannelSize == 1
MaxThreads == 2
\* most chunks of a source given to the pipeline to fill its queues
MaxChunks == 5
\* the chunk configuration, scaled down to sources of MaxLen bytes
MinChunkSize == 1
MaxChunkSize == 2

\* ------------------------------------------------------------------ helpers

\* all sequences over S of length at most n
SeqsUpTo(S, n) == UNION {[1..k -> S] : k \in 0..n}

\* the elements of a sequence
Range(s) == {s[i] : i \in 1..Len(s)}

RECURSIVE SumLengths(_)
SumLengths(rows) ==
    IF rows = <<>> THEN 0 ELSE Head(rows).length + SumLengths(Tail(rows))

\* ------------------------------------------------------------------ chunks

\* INSERT OR IGNORE INTO chunks (hash, size): the primary key is hash, a row
\* whose hash is already there is skipped without error.
InsertQueryReplacing(tbl, item) ==
    {r \in tbl : r.hash # item.hash} \cup {[hash |-> item.hash, size |-> item.size]}

InsertQuery(tbl, item) ==
    IF \E r \in tbl : r.hash = item.hash
    THEN tbl
    ELSE tbl \cup {[hash |-> item.hash, size |-> item.size]}

\* The loop of store_all inside its transaction.  fault = k > 0: the k-th
\* execute fails with a connection-level error and `?` leaves the loop (the
\* specifications let the connection fail at the last row of a batch, after
\* the rows before it have run).
RECURSIVE ChunkTx(_, _, _)
ChunkTx(tbl, items, fault) ==
    IF items = <<>> THEN [ok |-> TRUE, rows |-> tbl, done |-> 0]
    ELSE IF fault = 1 THEN [ok |-> FALSE, rows |-> tbl, done |-> 0]
    ELSE LET rest == ChunkTx(InsertQuery(tbl, Head(items)), Tail(items),
                             IF fault = 0 THEN 0 ELSE fault - 1)
         IN  [rest EXCEPT !.done = @ + 1]

\* store_all: begin, the loop, commit.  Leaving without commit drops the
\* transaction, which rolls it back.
ChunkStoreAll(tbl, items, fault) ==
    LET tx == ChunkTx(tbl, items, fault)
    IN  IF tx.ok
        THEN [result |-> "Ok", rows |-> tx.rows, done |-> tx.done]
        ELSE [result |-> "DbError", rows |-> tbl, done |-> tx.done]

\* store: one statement on the pool, committed on its own.
ChunkStore(tbl, item, fault) ==
    IF fault = 1
    THEN [result |-> "DbError", rows |-> tbl, done |-> 0]
    ELSE [result |-> "Ok", rows |-> InsertQuery(tbl, item), done |-> 1]

\* history: the first committed write of every digest
FirstWrites(seen, items) ==
    seen \cup
    {[hash |-> items[i].hash, size |-> items[i].size] : i \in
        {i \in 1..Len(items) :
            /\ \A r \in seen : r.hash # items[i].hash
            /\ \A j \in 1..(i - 1) : items[j].hash # items[i].hash}}

StoreChunk(item, fault) ==
    LET r == ChunkStore(chunks, item, fault)
    IN  /\ chunks' = r.rows
        /\ last' = [op |-> "store_chunk", arg |-> <<item>>, fault |-> fault,
                    result |-> r.result, out |-> r.done,
                    old |-> {x \in chunks : x.hash = item.hash}]
        /\ firstSize' = IF r.result = "Ok" THEN FirstWrites(firstSize, <<item>>)
                        ELSE firstSize
        /\ UNCHANGED <<files, sections, latest, reindexes, pipeline, watcher, diff>>

StoreAllChunks(items, fault) ==
    LET r == ChunkStoreAll(chunks, items, fault)
    IN  /\ chunks' = r.rows
        /\ last' = [op |-> "store_all_chunk", arg |-> items, fault |-> fault,
                    result |-> r.result, out |-> r.done, old |-> {}]
        /\ firstSize' = IF r.result = "Ok" THEN FirstWrites(firstSize, items)
                        ELSE firstSize
        /\ UNCHANGED <<files, sections, latest, reindexes, pipeline, watcher, diff>>

\* ------------------------------------------------------------------ files

\* UPSERT_QUERY: INSERT INTO files ... ON CONFLICT(file_id) DO UPDATE SET
\* name, path, hash = excluded.*
UpsertQueryKeepingPath(tbl, entry) ==
    IF \E r \in tbl : r.file_id = entry.file_id
    THEN {IF r.file_id = entry.file_id
          THEN [file_id |-> r.file_id, name |-> entry.name, path |-> r.path,
                hash |-> entry.hash]
          ELSE r : r \in tbl}
    ELSE tbl \cup {entry}

UpsertQuery(tbl, entry) ==
    IF \E r \in tbl : r.file_id = entry.file_id
    THEN {IF r.file_id = entry.file_id
          THEN [file_id |-> r.file_id, name |-> entry.name, path |-> entry.path,
                hash |-> entry.hash]
          ELSE r : r \in tbl}
    ELSE tbl \cup {entry}

RECURSIVE FileTx(_, _, _)
FileTx(tbl, items, fault) ==
    IF items = <<>> THEN [ok |-> TRUE, rows |-> tbl, done |-> 0]
    ELSE IF fault = 1 THEN [ok |-> FALSE, rows |-> tbl, done |-> 0]
    ELSE LET rest == FileTx(UpsertQuery(tbl, Head(items)), Tail(items),
                            IF fault = 0 THEN 0 ELSE fault - 1)
         IN  [rest EXCEPT !.done = @ + 1]

FileStoreAll(tbl, items, fault) ==
    LET tx == FileTx(tbl, items, fault)
    IN  IF tx.ok
        THEN [result |-> "Ok", rows |-> tx.rows, done |-> tx.done]
        ELSE [result |-> "DbError", rows |-> tbl, done |-> tx.done]

FileStore(tbl, item, fault) ==
    IF fault = 1
    THEN [result |-> "DbError", rows |-> tbl, done |-> 0]
    ELSE [result |-> "Ok", rows |-> UpsertQuery(tbl, item), done |-> 1]

\* history: the latest committed write of every file id
LatestWrites(seen, items) ==
    {e \in seen : \A i \in 1..Len(items) : items[i].file_id # e.file_id}
    \cup {items[i] : i \in
            {i \in 1..Len(items) :
                \A j \in (i + 1)..Len(items) : items[j].file_id # items[i].file_id}}

\* a store of a file that replaces the row it finds (INSERT OR REPLACE) with
\* the sections of the replaced row deleted along with it
StoreFileCascading(item, fault) ==
    LET r == FileStore(files, item, fault)
        replaced == r.result = "Ok" /\ \E x \in files : x.file_id = item.file_id
    IN  /\ files' = r.rows
        /\ sections' = IF replaced
                        THEN {x \in sections : x.file_id # item.file_id}
                        ELSE sections
        /\ last' = [op |-> "store_file", arg |-> <<item>>, fault |-> fault,
                    result |-> r.result, out |-> r.done,
                    old |-> {x \in files : x.file_id = item.file_id}]
        /\ latest' = IF r.result = "Ok" THEN LatestWrites(latest, <<item>>) ELSE latest
        /\ UNCHANGED <<chunks, firstSize, reindexes, pipeline, watcher, diff>>

StoreFile(item, fault) ==
    LET r == FileStore(files, item, fault)
    IN  /\ files' = r.rows
        /\ last' = [op |-> "store_file", arg |-> <<item>>, fault |-> fault,
                    result |-> r.result, out |-> r.done,
                    old |-> {x \in files : x.file_id = item.file_id}]
        /\ latest' = IF r.result = "Ok" THEN LatestWrites(latest, <<item>>) ELSE latest
        /\ UNCHANGED <<chunks, sections, firstSize, reindexes, pipeline, watcher, diff>>

StoreAllFiles(items, fault) ==
    LET r == FileStoreAll(files, items, fault)
    IN  /\ files' = r.rows
        /\ last' = [op |-> "store_all_file", arg |-> items, fault |-> fault,
                    result |-> r.result, out |-> r.done, old |-> {}]
        /\ latest' = IF r.result = "Ok" THEN LatestWrites(latest, items) ELSE latest
        /\ UNCHANGED <<chunks, sections, firstSize, reindexes, pipeline, watcher, diff>>

\* ------------------------------------------------------------------ file_sections

\* The foreign keys of file_sections: file_id references files, chunk_hash
\* references chunks; both are checked when the statement ends.
ForeignKeys(entry, parentFiles, parentChunks) ==
    /\ \E f \in parentFiles : f.file_id = entry.file_id
    /\ \E c \in parentChunks : c.hash = entry.chunk_hash

SameKey(r, entry) == r.file_id = entry.file_id /\ r.offset = entry.offset

\* INSERT INTO file_sections ... ON CONFLICT(file_id, offset) DO UPDATE SET
\* chunk_hash, length = excluded.*
SectionUpsertUncheckedUpdate(tbl, entry, parentFiles, parentChunks) ==
    IF \E r \in tbl : SameKey(r, entry)
    THEN [ok |-> TRUE, rows |-> {r \in tbl : ~SameKey(r, entry)} \cup {entry}]
    ELSE IF ~ForeignKeys(entry, parentFiles, parentChunks)
    THEN [ok |-> FALSE, rows |-> tbl]
    ELSE [ok |-> TRUE, rows |-> tbl \cup {entry}]

SectionUpsertKeepingLength(tbl, entry, parentFiles, parentChunks) ==
    IF ~ForeignKeys(entry, parentFiles, parentChunks)
    THEN [ok |-> FALSE, rows |-> tbl]
    ELSE IF \E r \in tbl : SameKey(r, entry)
    THEN [ok |-> TRUE,
          rows |-> {IF SameKey(r, entry)
                    THEN [r EXCEPT !.chunk_hash = entry.chunk_hash]
                    ELSE r : r \in tbl}]
    ELSE [ok |-> TRUE, rows |-> tbl \cup {entry}]

SectionUpsertByFile(tbl, entry, parentFiles, parentChunks) ==
    IF ~ForeignKeys(entry, parentFiles, parentChunks)
    THEN [ok |-> FALSE, rows |-> tbl]
    ELSE [ok |-> TRUE,
          rows |-> {r \in tbl : r.file_id # entry.file_id} \cup {entry}]

SectionUpsert(tbl, entry, parentFiles, parentChunks) ==
    IF ~ForeignKeys(entry, parentFiles, parentChunks)
    THEN [ok |-> FALSE, rows |-> tbl]
    ELSE IF \E r \in tbl : SameKey(r, entry)
    THEN [ok |-> TRUE,
          rows |-> {IF SameKey(r, entry)
                    THEN [r EXCEPT !.chunk_hash = entry.chunk_hash,
                                   !.length = entry.length]
                    ELSE r : r \in tbl}]
    ELSE [ok |-> TRUE, rows |-> tbl \cup {entry}]

\* The loop of store_all inside its transaction: a statement that fails (a
\* foreign key, or the connection fault at the k-th execute) leaves the loop.
RECURSIVE SectionTx(_, _, _, _, _)
SectionTx(tbl, entries, fault, parentFiles, parentChunks) ==
    IF entries = <<>> THEN [ok |-> TRUE, rows |-> tbl, done |-> 0]
    ELSE IF fault = 1 THEN [ok |-> FALSE, rows |-> tbl, done |-> 0]
    ELSE LET q == SectionUpsert(tbl, Head(entries), parentFiles, parentChunks)
         IN  IF ~q.ok THEN [ok |-> FALSE, rows |-> tbl, done |-> 0]
             ELSE LET rest == SectionTx(q.rows, Tail(entries),
                                        IF fault = 0 THEN 0 ELSE fault - 1,
                                        parentFiles, parentChunks)
                  IN  [rest EXCEPT !.done = @ + 1]

SectionStoreAllNoRollback(tbl, entries, fault, parentFiles, parentChunks) ==
    LET tx == SectionTx(tbl, entries, fault, parentFiles, parentChunks)
    IN  [result |-> IF tx.ok THEN "Ok" ELSE "DbError", rows |-> tx.rows,
         done |-> tx.done]

SectionStoreAllIgnoringErrors(tbl, entries, fault, parentFiles, parentChunks) ==
    LET tx == SectionTx(tbl, entries, fault, parentFiles, parentChunks)
    IN  [result |-> "Ok", rows |-> IF tx.ok THEN tx.rows ELSE tbl, done |-> tx.done]

SectionStoreAll(tbl, entries, fault, parentFiles, parentChunks) ==
    IF entries = <<>>
    THEN [result |-> "Ok", rows |-> tbl, done |-> 0]
    ELSE LET tx == SectionTx(tbl, entries, fault, parentFiles, parentChunks)
         IN  IF tx.ok
             THEN [result |-> "Ok", rows |-> tx.rows, done |-> tx.done]
             ELSE [result |-> "DbError", rows |-> tbl, done |-> tx.done]

SectionStore(tbl, entry, fault, parentFiles, parentChunks) ==
    IF fault = 1
    THEN [result |-> "DbError", rows |-> tbl, done |-> 0]
    ELSE LET q == SectionUpsert(tbl, entry, parentFiles, parentChunks)
         IN  IF q.ok
             THEN [result |-> "Ok", rows |-> q.rows, done |-> 1]
             ELSE [result |-> "DbError", rows |-> tbl, done |-> 0]

StoreSection(entry, fault) ==
    LET r == SectionStore(sections, entry, fault, files, chunks)
    IN  /\ sections' = r.rows
        /\ last' = [op |-> "store_section", arg |-> <<entry>>, fault |-> fault,
                    result |-> r.result, out |-> r.done,
                    old |-> {x \in sections : SameKey(x, entry)}]
        /\ UNCHANGED <<files, chunks, firstSize, latest, reindexes, pipeline, watcher, diff>>

StoreAllSections(entries, fault) ==
    LET r == SectionStoreAll(sections, entries, fault, files, chunks)
    IN  /\ sections' = r.rows
        /\ last' = [op |-> "store_all_section", arg |-> entries, fault |-> fault,
                    result |-> r.result, out |-> r.done, old |-> {}]
        /\ UNCHANGED <<files, chunks, firstSize, latest, reindexes, pipeline, watcher, diff>>

\* ------------------------------------------------------------------ fetch of sections

\* File ids are numbered in the order of their text form (FileID::to_string),
\* which is the order ORDER BY file_id sorts the TEXT column in.
Before(a, b) ==
    \/ a.file_id < b.file_id
    \/ a.file_id = b.file_id /\ a.offset < b.offset

\* ORDER BY file_id, offset ASC (for one file: ORDER BY offset ASC)
RECURSIVE OrderByDescending(_)
OrderByDescending(rows) ==
    IF rows = {} THEN <<>>
    ELSE LET first == CHOOSE r \in rows : \A x \in rows : x = r \/ ~Before(r, x)
         IN  <<first>> \o OrderByDescending(rows \ {first})

RECURSIVE OrderBy(_)
OrderBy(rows) ==
    IF rows = {} THEN <<>>
    ELSE LET first == CHOOSE r \in rows : \A x \in rows : x = r \/ ~Before(x, r)
         IN  <<first>> \o OrderBy(rows \ {first})

\* fetch_by: SELECT ... WHERE file_id = $1 ORDER BY offset ASC; no row is NotFound
SectionFetchBy(tbl, key) ==
    LET entries == OrderBy({r \in tbl : r.file_id = key})
    IN  IF entries = <<>>
        THEN [result |-> "NotFound", rows |-> <<>>]
        ELSE [result |-> "Ok", rows |-> entries]

\* The grouping loop of fetch_many over the flat rows: grouped, current_file_vec
\* and last_id (<<>> is None, <<id>> is Some(id)).
RECURSIVE GroupIgnoringFileChange(_, _, _, _)
GroupIgnoringFileChange(flat, grouped, current, lastId) ==
    IF flat = <<>>
    THEN IF current # <<>> THEN Append(grouped, current) ELSE grouped
    ELSE GroupIgnoringFileChange(Tail(flat), grouped, Append(current, Head(flat)),
                                 <<Head(flat).file_id>>)

RECURSIVE Group(_, _, _, _)
Group(flat, grouped, current, lastId) ==
    IF flat = <<>>
    THEN IF current # <<>> THEN Append(grouped, current) ELSE grouped
    ELSE LET entry == Head(flat)
             newFile == lastId # <<>> /\ lastId[1] # entry.file_id
         IN  Group(Tail(flat),
                   IF newFile THEN Append(grouped, current) ELSE grouped,
                   IF newFile THEN <<entry>> ELSE Append(current, entry),
                   <<entry.file_id>>)

\* fetch_many: empty key list returns at once; else WHERE file_id IN (keys)
\* ORDER BY file_id, offset ASC, then the grouping loop
SectionFetchMany(tbl, keys) ==
    IF keys = <<>>
    THEN [result |-> "Ok", rows |-> <<>>]
    ELSE LET flat == OrderBy({r \in tbl : r.file_id \in Range(keys)})
         IN  [result |-> "Ok", rows |-> Group(flat, <<>>, <<>>, <<>>)]

FetchBySections(key) ==
    LET r == SectionFetchBy(sections, key)
    IN  /\ last' = [op |-> "fetch_by_section", arg |-> <<key>>, fault |-> 0,
                    result |-> r.result, out |-> r.rows, old |-> {}]
        /\ UNCHANGED <<files, chunks, sections, firstSize, latest, reindexes, pipeline, watcher, diff>>

FetchManySections(keys) ==
    LET r == SectionFetchMany(sections, keys)
    IN  /\ last' = [op |-> "fetch_many_section", arg |-> keys, fault |-> 0,
                    result |-> r.result, out |-> r.rows, old |-> {}]
        /\ UNCHANGED <<files, chunks, sections, firstSize, latest, reindexes, pipeline, watcher, diff>>

\* ------------------------------------------------------------------ fetch of files and chunks

\* every order a SELECT without ORDER BY may return the rows in
Orders(rows) ==
    {s \in [1..Cardinality(rows) -> rows] : Range(s) = rows}

\* results.pop(): the last row, <<>> when there is none
Pop(results) ==
    IF results = <<>> THEN <<>> ELSE <<results[Len(results)]>>

\* fetch_many of files: an empty key list returns before the database is
\* asked; else SELECT * FROM files WHERE file_id IN (keys).  fault = 1: the
\* query fails with a connection-level error.
FileFetchManyStrict(tbl, keys, fault) ==
    IF keys = <<>> THEN [result |-> "Ok", rows |-> {}]
    ELSE IF fault = 1 THEN [result |-> "DbError", rows |-> {}]
    ELSE IF \E k \in Range(keys) : \A r \in tbl : r.file_id # k
    THEN [result |-> "NotFound", rows |-> {}]
    ELSE [result |-> "Ok", rows |-> {r \in tbl : r.file_id \in Range(keys)}]

FileFetchMany(tbl, keys, fault) ==
    IF keys = <<>> THEN [result |-> "Ok", rows |-> {}]
    ELSE IF fault = 1 THEN [result |-> "DbError", rows |-> {}]
    ELSE [result |-> "Ok", rows |-> {r \in tbl : r.file_id \in Range(keys)}]

\* fetch_many of chunks: SELECT hash, size FROM chunks WHERE hash IN (keys)
ChunkFetchMany(tbl, keys, fault) ==
    IF keys = <<>> THEN [result |-> "Ok", rows |-> {}]
    ELSE IF fault = 1 THEN [result |-> "DbError", rows |-> {}]
    ELSE [result |-> "Ok", rows |-> {r \in tbl : r.hash \in Range(keys)}]

\* fetch_by: fetch_many(&[key]), `?`, then pop().ok_or(NotFound); many is what
\* fetch_many gave and results the order its rows came in
FetchByOf(many, results) ==
    IF many.result # "Ok" THEN [result |-> many.result, rows |-> <<>>]
    ELSE IF Pop(results) = <<>> THEN [result |-> "NotFound", rows |-> <<>>]
    ELSE [result |-> "Ok", rows |-> Pop(results)]

FetchManyFiles(keys, fault) ==
    LET r == FileFetchMany(files, keys, fault)
    IN  /\ \E results \in Orders(r.rows) :
              last' = [op |-> "fetch_many_file", arg |-> keys, fault |-> fault,
                       result |-> r.result, out |-> results, old |-> {}]
        /\ UNCHANGED <<files, chunks, sections, firstSize, latest, reindexes, pipeline, watcher, diff>>

FetchByFiles(key, fault) ==
    LET many == FileFetchMany(files, <<key>>, fault)
    IN  /\ \E results \in Orders(many.rows) :
              LET r == FetchByOf(many, results)
              IN  last' = [op |-> "fetch_by_file", arg |-> <<key>>, fault |-> fault,
                           result |-> r.result, out |-> r.rows, old |-> {}]
        /\ UNCHANGED <<files, chunks, sections, firstSize, latest, reindexes, pipeline, watcher, diff>>

FetchManyChunks(keys, fault) ==
    LET r == ChunkFetchMany(chunks, keys, fault)
    IN  /\ \E results \in Orders(r.rows) :
              last' = [op |-> "fetch_many_chunk", arg |-> keys, fault |-> fault,
                       result |-> r.result, out |-> results, old |-> {}]
        /\ UNCHANGED <<files, chunks, sections, firstSize, latest, reindexes, pipeline, watcher, diff>>

FetchByChunks(key, fault) ==
    LET many == ChunkFetchMany(chunks, <<key>>, fault)
    IN  /\ \E results \in Orders(many.rows) :
              LET r == FetchByOf(many, results)
              IN  last' = [op |-> "fetch_by_chunk", arg |-> <<key>>, fault |-> fault,
                           result |-> r.result, out |-> r.rows, old |-> {}]
        /\ UNCHANGED <<files, chunks, sections, firstSize, latest, reindexes, pipeline, watcher, diff>>

\* ------------------------------------------------------------------ chunk_source

Min(a, b) == IF a < b THEN a ELSE b

\* The cut point StreamCDC finds in the bytes left: all of them when there are
\* at most min_size; else the first position past min_size where the rolling
\* hash of the content hits the mask (here: the byte is 1), and max_size (or
\* the end of the source) when none does.
CutPoint(bytes) ==
    IF Len(bytes) <= MinChunkSize THEN Len(bytes)
    ELSE LET limit == Min(Len(bytes), MaxChunkSize)
             hits == {n \in (MinChunkSize + 1)..limit : bytes[n] = 1}
         IN  IF hits = {} THEN limit
             ELSE CHOOSE n \in hits : \A m \in hits : n <= m

\* StreamCDC as an iterator: the chunks [offset, length, data] of the source
RECURSIVE StreamCDCFromChunkStart(_, _)
StreamCDCFromChunkStart(bytes, offset) ==
    IF bytes = <<>> THEN <<>>
    ELSE LET n == CutPoint(bytes)
         IN  <<[offset |-> offset, length |-> n, data |-> SubSeq(bytes, 1, n)]>>
             \o StreamCDCFromChunkStart(SubSeq(bytes, n + 1, Len(bytes)), offset)

RECURSIVE StreamCDCWithFinalChunk(_, _)
StreamCDCWithFinalChunk(bytes, offset) ==
    IF bytes = <<>> THEN <<[offset |-> offset, length |-> 0, data |-> <<>>]>>
    ELSE LET n == CutPoint(bytes)
         IN  <<[offset |-> offset, length |-> n, data |-> SubSeq(bytes, 1, n)]>>
             \o StreamCDCWithFinalChunk(SubSeq(bytes, n + 1, Len(bytes)), offset + n)

RECURSIVE StreamCDC(_, _)
StreamCDC(bytes, offset) ==
    IF bytes = <<>> THEN <<>>
    ELSE LET n == CutPoint(bytes)
         IN  <<[offset |-> offset, length |-> n, data |-> SubSeq(bytes, 1, n)]>>
             \o StreamCDC(SubSeq(bytes, n + 1, Len(bytes)), offset + n)

\* blake3::hash of the chunk bytes: no two byte strings of the model collide
RECURSIVE Blake3(_)
Blake3(data) ==
    IF data = <<>> THEN 1
    ELSE 2 * Blake3(SubSeq(data, 1, Len(data) - 1)) + data[Len(data)]

\* a list without the entries that repeat an earlier one
RECURSIVE Deduplicated(_)
Deduplicated(entries) ==
    IF entries = <<>> THEN <<>>
    ELSE LET front == Deduplicated(SubSeq(entries, 1, Len(entries) - 1))
             e == entries[Len(entries)]
         IN  IF e \in Range(front) THEN front ELSE Append(front, e)

\* chunk_source: one chunk entry and one section entry per chunk, in order
ChunkSourceDeduplicating(file_id, source) ==
    LET cut == StreamCDC(source, 0)
    IN  [chunks |-> Deduplicated([i \in 1..Len(cut) |->
                        [hash |-> Blake3(cut[i].data), size |-> cut[i].length]]),
         sections |-> [i \in 1..Len(cut) |->
                        [file_id |-> file_id, chunk_hash |-> Blake3(cut[i].data),
                         length |-> cut[i].length, offset |-> cut[i].offset]]]

ChunkSource(file_id, source) ==
    LET cut == StreamCDC(source, 0)
    IN  [chunks |-> [i \in 1..Len(cut) |->
                        [hash |-> Blake3(cut[i].data), size |-> cut[i].length]],
         sections |-> [i \in 1..Len(cut) |->
                        [file_id |-> file_id, chunk_hash |-> Blake3(cut[i].data),
                         length |-> cut[i].length, offset |-> cut[i].offset]]]

\* A reindex as the callers do it: chunk_source over the current bytes, then
\* store_all of the chunks, then store_all of the sections.
Reindex(file_id, source) ==
    LET cs == ChunkSource(file_id, source)
        c == ChunkStoreAll(chunks, cs.chunks, 0)
        r == SectionStoreAll(sections, cs.sections, 0, files, c.rows)
    IN  /\ reindexes < MaxReindex
        /\ chunks' = c.rows
        /\ sections' = r.rows
        /\ last' = [op |-> "reindex",
                    arg |-> <<[file_id |-> file_id, source |-> source]>>,
                    fault |-> 0, result |-> r.result, out |-> r.done, old |-> {}]
        /\ firstSize' = FirstWrites(firstSize, cs.chunks)
        /\ reindexes' = reindexes + 1
        /\ UNCHANGED <<files, latest, pipeline, watcher, diff>>

\* The first index of a new file as the callers do it: chunk_source over the
\* bytes, store of the file row, store_all of the chunks, store_all of the
\* sections (each `?`: the first error ends the sequence).
Index(file, source) ==
    LET cs == ChunkSource(file.file_id, source)
        f == FileStore(files, file, 0)
        c == ChunkStoreAll(chunks, cs.chunks, 0)
        r == SectionStoreAll(sections, cs.sections, 0, f.rows, c.rows)
    IN  /\ \A x \in sections : x.file_id # file.file_id
        /\ files' = f.rows
        /\ chunks' = c.rows
        /\ sections' = r.rows
        /\ last' = [op |-> "index",
                    arg |-> <<[file_id |-> file.file_id, source |-> source]>>,
                    fault |-> 0, result |-> r.result, out |-> cs, old |-> {}]
        /\ firstSize' = FirstWrites(firstSize, cs.chunks)
        /\ latest' = LatestWrites(latest, <<file>>)
        /\ UNCHANGED <<reindexes, pipeline, watcher, diff>>

\* ------------------------------------------------------------------ the chunking pipeline

\* Three entry points run the same pipeline: get_chunk_hashes and
\* HashEngine::process of hash_engine.rs, called with a path, and
\* HashEngine::process of lib.rs, called with a reader ("process_reader").
\* A cutter job cuts the source into chunks and sends them through the
\* bounded channel (tx, rx); a hasher job drains rx through par_bridge, which
\* lets every thread of the pool that finds no other work hash along, and
\* sends the records through the bounded channel (output_tx, output_rx); the
\* collector receives them.
\*
\* The worker pool is rayon's: a job spawned from outside the pool is injected
\* (first in, first out); a job spawned by a pool thread goes on that
\* thread's deque, which its owner pops newest first and other threads steal
\* oldest first; a thread looks on its own deque, then steals, then takes an
\* injected job; a thread that waits for jobs it started (scope, the join of
\* the bridge) runs other jobs meanwhile, on top of the waiting one.
\*
\* Every call makes its own two channels; the pool belongs to the engine and
\* is shared by the calls made on it.  The state of a call is kept under the
\* number of the call, and a job names the call it belongs to.

\* the calls that can be in progress on one pool
Invocations == {1, 2}

NoRun ==
    [fn |-> "none", source |-> <<>>, fault |-> "none", at |-> 0,
     channel_size |-> 0, num_threads |-> 0]
NoBridge == [pc |-> "new", splits |-> 0]
NoCutter == [pc |-> "new", index |-> 0, cuts |-> 0, errors |-> 0, held |-> <<>>]
NoCollector ==
    [pc |-> "none", received |-> <<>>, errs |-> <<>>, result |-> "none",
     map |-> <<>>]

Threads == DOMAIN stack

\* a job of call i
Job(name, i) == [job |-> name, of |-> i]

\* the job a thread is in: the innermost frame of its stack
Top(frames) == IF frames = <<>> THEN Job("idle", 0) ELSE frames[Len(frames)]

\* the chunks of the source of the run
Chunks(r) == StreamCDC(r.source, 0)

\* The next item of stream_cdc.enumerate() as the cutter sends it, <<>> at the
\* end.  fault "open": File::open fails, the cutter sends the error and
\* returns.  fault "once" / "always": the read that follows chunk number `at`
\* fails once / from then on; StreamCDC yields the error and goes on reading
\* at its next call (only the end of the source ends the iterator).
NextItem(r, c) ==
    IF r.fault = "open"
    THEN IF c.errors = 0 THEN <<[ok |-> FALSE, reason |-> "IoError"]>> ELSE <<>>
    ELSE IF /\ r.fault \in {"once", "always"}
            /\ c.cuts = r.at
            /\ (r.fault = "always" \/ c.errors = 0)
    THEN <<[ok |-> FALSE, reason |-> "ChunkError"]>>
    ELSE IF c.cuts < Len(Chunks(r))
    THEN LET chunk == Chunks(r)[c.cuts + 1]
         IN  <<[ok |-> TRUE, index |-> c.index, offset |-> chunk.offset,
                length |-> chunk.length, data |-> chunk.data]>>
    ELSE <<>>

\* The closure of for_each: an error passes through; a chunk becomes
\* ChunkMetadata {index, hash, offset, length} (hash_engine.rs) or
\* HashData {index, chunk, hash} (lib.rs).
HashWithLengthAsOffset(fn, item) ==
    IF ~item.ok THEN item
    ELSE IF fn = "process_reader"
    THEN [ok |-> TRUE, index |-> item.index, chunk |-> item.data,
          hash |-> Blake3(item.data)]
    ELSE [ok |-> TRUE, index |-> item.index, hash |-> Blake3(item.data),
          offset |-> item.length, length |-> item.length]

Hash(fn, item) ==
    IF ~item.ok THEN item
    ELSE IF fn = "process_reader"
    THEN [ok |-> TRUE, index |-> item.index, chunk |-> item.data,
          hash |-> Blake3(item.data)]
    ELSE [ok |-> TRUE, index |-> item.index, hash |-> Blake3(item.data),
          offset |-> item.offset, length |-> item.length]

\* the error records of a list
Errors(records) == SelectSeq(records, LAMBDA x : ~x.ok)

\* A list of received records grows by one; error records beyond MaxErrors are
\* not told apart (a source that fails at every read yields them without end).
ReceiveInIndexOrderOnly(records, item) ==
    IF ~item.ok /\ Len(Errors(records)) >= MaxErrors THEN records
    ELSE IF item.ok /\ \E k \in 1..Len(records) :
                          records[k].ok /\ records[k].index > item.index
    THEN records
    ELSE Append(records, item)

Receive(records, item) ==
    IF ~item.ok /\ Len(Errors(records)) >= MaxErrors THEN records
    ELSE Append(records, item)

\* collect::<BTreeMap<ChunkIndex, ChunkMetadata>>() of the records left in
\* the stream: one entry per index, the last record of an index wins
Collect(records) ==
    [i \in {records[k].index : k \in 1..Len(records)} |->
        LET k == CHOOSE k \in 1..Len(records) :
                    /\ records[k].index = i
                    /\ \A j \in (k + 1)..Len(records) : records[j].index # i
        IN  [index |-> i, hash |-> records[k].hash, offset |-> records[k].offset,
             length |-> records[k].length]]

\* crossbeam_channel::bounded(channel_size): a send goes through when the
\* channel holds fewer than channel_size items, and blocks else
BoundedAboveCapacity(channel, channel_size) == Len(channel) <= channel_size

Bounded(channel, channel_size) == Len(channel) < channel_size

\* ThreadPoolBuilder::new().num_threads(num_threads): the pool is built once,
\* with the engine; every call on the engine runs on it
Pool(num_threads) ==
    /\ stack = <<>> \/ Len(stack) = num_threads
    /\ stack' = IF stack = <<>> THEN [t \in 1..num_threads |-> <<>>] ELSE stack
    /\ work' = IF stack = <<>>
               THEN [t \in 1..num_threads |-> [held |-> <<>>, failed |-> FALSE]]
               ELSE work

\* Call i, of one of the three entry points: the two channels are made and the
\* jobs are handed to the pool.  get_chunk_hashes spawns the cutter and the
\* hasher and runs the collector inside install; process spawns both and
\* returns output_rx.into_iter() at once; process over a reader spawns both
\* inside thread_pool.scope and returns the iterator when the scope is left.
Call(i, fn, source, fault, at, channel_size, num_threads) ==
    /\ run[i] = NoRun
    /\ \A j \in Invocations : j < i => run[j] # NoRun
    /\ Pool(num_threads)
    /\ run' = [run EXCEPT ![i] =
                  [fn |-> fn, source |-> source, fault |-> fault, at |-> at,
                   channel_size |-> channel_size, num_threads |-> num_threads]]
    /\ injected' = injected \o
                   (IF fn = "get_chunk_hashes"
                    THEN <<Job("cutter", i), Job("hasher", i), Job("collector", i)>>
                    ELSE IF fn = "process" THEN <<Job("cutter", i), Job("hasher", i)>>
                    ELSE <<Job("scope", i)>>)
    /\ collector' = [collector EXCEPT ![i] =
                        [NoCollector EXCEPT
                            !.pc = IF fn = "get_chunk_hashes" THEN "queued"
                                   ELSE IF fn = "process" THEN "draining"
                                   ELSE "blocked"]]
    /\ UNCHANGED <<deque, par_bridge, cutter, rx, output_rx, store, watcher, diff>>

\* HashEngine::process of hash_engine.rs called from a thread of its own, as
\* far as thread_pool.spawn of the cutter: another caller can spawn its jobs
\* before this one spawns its hasher
SpawnCutter(i, source, channel_size, num_threads) ==
    /\ run[i] = NoRun
    /\ \A j \in Invocations : j < i => run[j] # NoRun
    /\ Pool(num_threads)
    /\ run' = [run EXCEPT ![i] =
                  [fn |-> "process", source |-> source, fault |-> "none", at |-> 0,
                   channel_size |-> channel_size, num_threads |-> num_threads]]
    /\ injected' = Append(injected, Job("cutter", i))
    /\ collector' = [collector EXCEPT ![i] = [NoCollector EXCEPT !.pc = "spawning"]]
    /\ UNCHANGED <<deque, par_bridge, cutter, rx, output_rx, store, watcher, diff>>

\* the rest of that call: thread_pool.spawn of the hasher, and
\* output_rx.into_iter() is returned
SpawnHasher(i) ==
    /\ collector[i].pc = "spawning"
    /\ injected' = Append(injected, Job("hasher", i))
    /\ collector' = [collector EXCEPT ![i].pc = "draining"]
    /\ UNCHANGED <<run, deque, par_bridge, stack, cutter, work, rx, output_rx,
                   store, watcher, diff>>

\* no item is left in rx and none will come: tx is dropped
StreamOver(i) == rx[i] = <<>> /\ cutter[i].pc = "done"

HelpersLeft(i) == \E u \in Threads : Job("helper", i) \in Range(stack[u])

\* the thread is idle, or waits for a latch that is not set yet
LooksForWork(t) ==
    \/ stack[t] = <<>>
    \/ Top(stack[t]).job = "scope" /\ cutter[Top(stack[t]).of].pc # "done"
    \/ Top(stack[t]).job = "join" /\ HelpersLeft(Top(stack[t]).of)

\* find_work: the jobs thread t may take now, [job, from].  The newest job of
\* its own deque; else a job stolen from another thread, the oldest of its
\* deque (the halves of the bridge lie on the deque of the thread that runs
\* the hasher job, above a cutter that was not taken yet); else the oldest
\* injected job.
FindWork(t) ==
    LET halves == {i \in Invocations :
                      /\ par_bridge[i].pc = "running"
                      /\ par_bridge[i].splits > 0
                      /\ ~StreamOver(i)}
    IN  IF Top(stack[t]).job = "scope" /\ deque # <<>>
        THEN {[job |-> deque[Len(deque)], from |-> "local"]}
        ELSE IF deque # <<>>
        THEN {[job |-> Head(deque), from |-> "deque"]}
        ELSE IF halves # {}
        THEN {[job |-> Job("helper", i), from |-> "bridge"] : i \in halves}
        ELSE IF injected # <<>>
        THEN {[job |-> Head(injected), from |-> "injected"]}
        ELSE {}

\* A pool thread takes a job and starts it.  Idle threads are alike: the one
\* with the lowest number takes the job.
TakeJob(t) ==
    /\ LooksForWork(t)
    /\ stack[t] = <<>> => \A u \in Threads : u < t => stack[u] # <<>>
    /\ \E w \in FindWork(t) :
          LET name == w.job.job
              i == w.job.of
          IN  /\ stack' = [stack EXCEPT ![t] =
                              Append(@, IF name = "hasher" THEN Job("bridge", i)
                                        ELSE w.job)]
              /\ deque' = IF w.from = "local" THEN SubSeq(deque, 1, Len(deque) - 1)
                          ELSE IF w.from = "deque" THEN Tail(deque)
                          ELSE IF name = "scope"
                          THEN <<Job("cutter", i), Job("hasher", i)>>
                          ELSE deque
              /\ injected' = IF w.from = "injected" THEN Tail(injected) ELSE injected
              /\ par_bridge' = IF name = "helper"
                               THEN [par_bridge EXCEPT ![i].splits = @ - 1]
                               ELSE par_bridge
              /\ cutter' = IF name = "cutter" THEN [cutter EXCEPT ![i].pc = "cut"]
                           ELSE cutter
              /\ collector' = IF name = "collector"
                              THEN [collector EXCEPT ![i].pc = "any"]
                              ELSE collector
    /\ UNCHANGED <<run, work, rx, output_rx, store, watcher, diff>>

\* the cutter reads the next chunk (or error) of the source
CutterCut(t) ==
    LET i == Top(stack[t]).of
    IN  /\ Top(stack[t]).job = "cutter"
        /\ cutter[i].pc = "cut"
        /\ NextItem(run[i], cutter[i]) # <<>>
        /\ LET item == NextItem(run[i], cutter[i])[1]
           IN  cutter' = [cutter EXCEPT ![i] =
                             [@ EXCEPT
                                 !.pc = "send",
                                 !.held = <<item>>,
                                 !.cuts = IF item.ok THEN @ + 1 ELSE @,
                                 !.errors = IF item.ok THEN @ ELSE 1,
                                 !.index = IF ~item.ok /\ run[i].fault = "always"
                                           THEN @ ELSE @ + 1]]
        /\ UNCHANGED <<run, injected, deque, par_bridge, stack, work, rx, output_rx,
                       collector, store, watcher, diff>>

\* tx.send(res): blocks while rx is full.  rx lives in the hasher job until the
\* bridge has ended, so this send never fails.
CutterSend(t) ==
    LET i == Top(stack[t]).of
    IN  /\ Top(stack[t]).job = "cutter"
        /\ cutter[i].pc = "send"
        /\ Bounded(rx[i], run[i].channel_size)
        /\ rx' = [rx EXCEPT ![i] = Append(@, cutter[i].held[1])]
        /\ cutter' = [cutter EXCEPT ![i] = [@ EXCEPT !.pc = "cut", !.held = <<>>]]
        /\ UNCHANGED <<run, injected, deque, par_bridge, stack, work, output_rx,
                       collector, store, watcher, diff>>

\* the iterator has ended: the closure returns and drops tx
CutterEnd(t) ==
    LET i == Top(stack[t]).of
    IN  /\ Top(stack[t]).job = "cutter"
        /\ cutter[i].pc = "cut"
        /\ NextItem(run[i], cutter[i]) = <<>>
        /\ cutter' = [cutter EXCEPT ![i].pc = "done"]
        /\ stack' = [stack EXCEPT ![t] = SubSeq(@, 1, Len(@) - 1)]
        /\ UNCHANGED <<run, injected, deque, par_bridge, work, rx, output_rx,
                       collector, store, watcher, diff>>

\* par_bridge().for_each starts: the bridge splits, its halves can be stolen
\* by the other threads of the pool
ParBridge(t) ==
    LET i == Top(stack[t]).of
    IN  /\ Top(stack[t]).job = "bridge"
        /\ stack' = [stack EXCEPT ![t] =
                        Append(SubSeq(@, 1, Len(@) - 1), Job("hasher", i))]
        /\ par_bridge' = [par_bridge EXCEPT ![i] =
                             [pc |-> "running", splits |-> run[i].num_threads - 1]]
        /\ UNCHANGED <<run, injected, deque, cutter, work, rx, output_rx, collector,
                       store, watcher, diff>>

\* a hashing thread that leaves the item it takes in rx (the channel hands an
\* item to every receiver that asks)
HasherRecvLeavingItem(t) ==
    LET i == Top(stack[t]).of
    IN  /\ Top(stack[t]).job \in {"hasher", "helper"}
        /\ work[t].held = <<>>
        /\ rx[i] # <<>>
        /\ work' = [work EXCEPT ![t].held = <<Hash(run[i].fn, Head(rx[i]))>>]
        /\ UNCHANGED <<run, injected, deque, par_bridge, stack, cutter, rx, output_rx,
                       collector, store, watcher, diff>>

\* a hashing thread takes the next item of rx and hashes it
HasherRecv(t) ==
    LET i == Top(stack[t]).of
    IN  /\ Top(stack[t]).job \in {"hasher", "helper"}
        /\ work[t].held = <<>>
        /\ rx[i] # <<>>
        /\ work' = [work EXCEPT ![t].held = <<Hash(run[i].fn, Head(rx[i]))>>]
        /\ rx' = [rx EXCEPT ![i] = Tail(@)]
        /\ UNCHANGED <<run, injected, deque, par_bridge, stack, cutter, output_rx,
                       collector, store, watcher, diff>>

\* let _ = output_tx.send(res): blocks while output_rx is full; fails, and is
\* ignored, when the receiver is dropped
HasherSend(t) ==
    LET i == Top(stack[t]).of
    IN  /\ Top(stack[t]).job \in {"hasher", "helper"}
        /\ work[t].held # <<>>
        /\ collector[i].pc = "dropped" \/ Bounded(output_rx[i], run[i].channel_size)
        /\ output_rx' = IF collector[i].pc = "dropped" THEN output_rx
                        ELSE [output_rx EXCEPT ![i] = Append(@, work[t].held[1])]
        /\ work' = [work EXCEPT ![t] =
                       [held |-> <<>>,
                        failed |-> @.failed \/ collector[i].pc = "dropped"]]
        /\ UNCHANGED <<run, injected, deque, par_bridge, stack, cutter, rx, collector,
                       store, watcher, diff>>

\* rx has ended: the thread leaves the bridge.  The thread that started the
\* bridge waits for the halves that were stolen; when none is left the hasher
\* job returns and drops output_tx.
HasherEnd(t) ==
    LET i == Top(stack[t]).of
    IN  /\ Top(stack[t]).job \in {"hasher", "helper"}
        /\ work[t].held = <<>>
        /\ StreamOver(i)
        /\ LET left == \E u \in Threads \ {t} : Job("helper", i) \in Range(stack[u])
               root == Top(stack[t]).job = "hasher"
           IN  /\ stack' = [stack EXCEPT ![t] =
                               IF root /\ left
                               THEN Append(SubSeq(@, 1, Len(@) - 1), Job("join", i))
                               ELSE SubSeq(@, 1, Len(@) - 1)]
               /\ par_bridge' = IF root /\ ~left
                                THEN [par_bridge EXCEPT ![i].pc = "done"]
                                ELSE par_bridge
        /\ UNCHANGED <<run, injected, deque, cutter, work, rx, output_rx, collector,
                       store, watcher, diff>>

JoinReturn(t) ==
    LET i == Top(stack[t]).of
    IN  /\ Top(stack[t]).job = "join"
        /\ ~HelpersLeft(i)
        /\ stack' = [stack EXCEPT ![t] = SubSeq(@, 1, Len(@) - 1)]
        /\ par_bridge' = [par_bridge EXCEPT ![i].pc = "done"]
        /\ UNCHANGED <<run, injected, deque, cutter, work, rx, output_rx, collector,
                       store, watcher, diff>>

\* thread_pool.scope returns when the job spawned in the scope, the cutter,
\* has ended: process over a reader hands the iterator to its caller
ScopeReturn(t) ==
    LET i == Top(stack[t]).of
    IN  /\ Top(stack[t]).job = "scope"
        /\ cutter[i].pc = "done"
        /\ deque = <<>>
        /\ stack' = [stack EXCEPT ![t] = SubSeq(@, 1, Len(@) - 1)]
        /\ collector' = [collector EXCEPT ![i].pc = "draining"]
        /\ UNCHANGED <<run, injected, deque, par_bridge, cutter, work, rx, output_rx,
                       store, watcher, diff>>

\* the caller of process takes the next record of the iterator
IterNext(i) ==
    /\ collector[i].pc = "draining"
    /\ output_rx[i] # <<>>
    /\ collector' = [collector EXCEPT
                        ![i].received = Receive(@, Head(output_rx[i]))]
    /\ output_rx' = [output_rx EXCEPT ![i] = Tail(@)]
    /\ UNCHANGED <<run, injected, deque, par_bridge, stack, cutter, work, rx, store, watcher, diff>>

\* output_rx is empty and output_tx is dropped: the iterator ends
IterEnd(i) ==
    /\ collector[i].pc = "draining"
    /\ output_rx[i] = <<>>
    /\ par_bridge[i].pc = "done"
    /\ collector' = [collector EXCEPT ![i].pc = "ended"]
    /\ UNCHANGED <<run, injected, deque, par_bridge, stack, cutter, work, rx,
                   output_rx, store, watcher, diff>>

\* the caller drops the iterator before its end: output_rx is dropped with
\* the records in it
Drop(i) ==
    /\ collector[i].pc = "draining"
    /\ collector' = [collector EXCEPT ![i].pc = "dropped"]
    /\ output_rx' = [output_rx EXCEPT ![i] = <<>>]
    /\ UNCHANGED <<run, injected, deque, par_bridge, stack, cutter, work, rx, store, watcher, diff>>

\* The closure get_chunk_hashes runs in install.  First
\* output_rx.iter().any(|res| res.is_err()): it takes records until one is an
\* error (pc "any"); after an error output_rx.iter().filter(is_err).collect()
\* takes the rest and keeps the errors (pc "filter").
CollectorRecv(t) ==
    LET i == Top(stack[t]).of
    IN  /\ Top(stack[t]).job = "collector"
        /\ output_rx[i] # <<>>
        /\ LET res == Head(output_rx[i])
           IN  collector' =
                   IF collector[i].pc = "any"
                   THEN [collector EXCEPT
                            ![i].pc = IF res.ok THEN "any" ELSE "filter"]
                   ELSE [collector EXCEPT
                            ![i].errs = IF res.ok THEN @ ELSE Receive(@, res)]
        /\ output_rx' = [output_rx EXCEPT ![i] = Tail(@)]
        /\ UNCHANGED <<run, injected, deque, par_bridge, stack, cutter, work, rx, store, watcher, diff>>

\* The stream has ended.  After an error: Err(HashError(errs)).  Else any()
\* is false and the closure collects output_rx.iter() into the map it
\* returns: the records that are left in the stream.
CollectorEnd(t) ==
    LET i == Top(stack[t]).of
    IN  /\ Top(stack[t]).job = "collector"
        /\ output_rx[i] = <<>>
        /\ par_bridge[i].pc = "done"
        /\ collector' =
               IF collector[i].pc = "filter"
               THEN [collector EXCEPT ![i] =
                        [@ EXCEPT !.pc = "returned", !.result = "HashError"]]
               ELSE [collector EXCEPT ![i] =
                        [@ EXCEPT !.pc = "returned", !.result = "Ok",
                                  !.map = Collect(output_rx[i])]]
        /\ stack' = [stack EXCEPT ![t] = SubSeq(@, 1, Len(@) - 1)]
        /\ UNCHANGED <<run, injected, deque, par_bridge, cutter, work, rx, output_rx,
                       store, watcher, diff>>

PoolStep == \E t \in Threads : TakeJob(t)

CutterStep == \E t \in Threads : CutterCut(t) \/ CutterSend(t) \/ CutterEnd(t)

HasherStep ==
    \E t \in Threads :
        \/ ParBridge(t)
        \/ HasherRecv(t)
        \/ HasherSend(t)
        \/ HasherEnd(t)
        \/ JoinReturn(t)

IteratorStep == \E i \in Invocations : IterNext(i) \/ IterEnd(i)

CollectorStep == \E t \in Threads : CollectorRecv(t) \/ CollectorEnd(t)

\* ------------------------------------------------------------------ the service

\* The watcher loop of main (service/src/main.rs).  The debouncer collects the
\* raw events of a debounce window into a batch and sends it through the
\* channel (event_sender, event_receiver); an iteration of the loop receives
\* one message, filters the batch and classifies it with build_events_iter.
\*
\* A path is [components, utf8]: its components, and whether its bytes are
\* valid UTF-8.  A raw event is [kind, paths, time], a logical event (OsEvent)
\* [kind, paths, time] with paths converted to Utf8PathBuf.

Utf8Path(components) == [components |-> components, utf8 |-> TRUE]

\* the directory the service watches, a file in it and a file of its .config
SyncRoot == Utf8Path(<<"s">>)
ConfigDir == Utf8Path(<<"s", ".config">>)
ConfigPath == Utf8Path(<<"s", ".config", "config.toml">>)

\* the filter of the loop: is_valid_kind && is_not_internal
IsValidKind(event) == event.kind \in {"Create", "Modify", "Remove"}

IsNotInternalFirstPath(event) ==
    ~\E c \in 1..Len(event.paths[1].components) :
        event.paths[1].components[c] = ".config"

IsNotInternal(event) ==
    ~\E i \in 1..Len(event.paths) :
        \E c \in 1..Len(event.paths[i].components) :
            event.paths[i].components[c] = ".config"

\* events.into_iter().filter(..): the events that pass, in the order of the
\* batch
FilterNewestFirst(batch) ==
    LET kept == SelectSeq(batch, LAMBDA event : IsValidKind(event) /\ IsNotInternal(event))
    IN  [k \in 1..Len(kept) |-> kept[Len(kept) + 1 - k]]

Filter(batch) == SelectSeq(batch, LAMBDA event : IsValidKind(event) /\ IsNotInternal(event))

\* impl From<EventKind> for OsEventKind
FromKeepingModify(kind) == kind

From(kind) == IF kind = "Modify" THEN "Update" ELSE kind

\* Utf8PathBuf::from_path_buf: <<converted path>>, or <<>> for a path that
\* is not valid UTF-8
FromPathBuf(path) == IF path.utf8 THEN <<path.components>> ELSE <<>>

\* events.peek(): the next event is a Create whose path list equals the
\* converted path list of the Remove
IsAtomicUpdateBeforeModify(rest, paths) ==
    /\ rest # <<>>
    /\ Head(rest).kind = "Modify"
    /\ Len(Head(rest).paths) = Len(paths)
    /\ \A i \in 1..Len(paths) : Head(rest).paths[i].components = paths[i]

IsAtomicUpdateAnyPaths(rest, paths) ==
    /\ rest # <<>>
    /\ Head(rest).kind = "Create"

IsAtomicUpdate(rest, paths) ==
    /\ rest # <<>>
    /\ Head(rest).kind = "Create"
    /\ Len(Head(rest).paths) = Len(paths)
    /\ \A i \in 1..Len(paths) : Head(rest).paths[i].components = paths[i]

\* build_events_iter without the events.next() that consumes the paired
\* Create
RECURSIVE BuildEventsIterKeepingCreate(_, _)
BuildEventsIterKeepingCreate(iter, out) ==
    IF iter = <<>> THEN [panicked |-> FALSE, os_events |-> out]
    ELSE LET event == Head(iter)
             rest == Tail(iter)
         IN  IF \E i \in 1..Len(event.paths) : FromPathBuf(event.paths[i]) = <<>>
             THEN [panicked |-> TRUE, os_events |-> <<>>]
             ELSE LET paths == [i \in 1..Len(event.paths) |->
                                   FromPathBuf(event.paths[i])[1]]
                      kind == IF event.kind = "Remove"
                              THEN IF IsAtomicUpdate(rest, paths) THEN "Update"
                                   ELSE "Remove"
                              ELSE From(event.kind)
                  IN  BuildEventsIterKeepingCreate(rest,
                          Append(out, [kind |-> kind, paths |-> paths,
                                       time |-> event.time]))

\* build_events_iter: the logical events of the events that passed the
\* filter; unwrap() panics at an event with a path that is not UTF-8
RECURSIVE BuildEventsIter(_, _)
BuildEventsIter(iter, out) ==
    IF iter = <<>> THEN [panicked |-> FALSE, os_events |-> out]
    ELSE LET event == Head(iter)
             rest == Tail(iter)
         IN  IF \E i \in 1..Len(event.paths) : FromPathBuf(event.paths[i]) = <<>>
             THEN [panicked |-> TRUE, os_events |-> <<>>]
             ELSE LET paths == [i \in 1..Len(event.paths) |->
                                   FromPathBuf(event.paths[i])[1]]
                  IN  IF event.kind = "Remove"
                      THEN IF IsAtomicUpdate(rest, paths)
                           THEN BuildEventsIter(Tail(rest),
                                    Append(out,
                                           [kind |-> "Update", paths |-> paths,
                                            time |-> event.time]))
                           ELSE BuildEventsIter(rest,
                                    Append(out,
                                           [kind |-> "Remove", paths |-> paths,
                                            time |-> event.time]))
                      ELSE BuildEventsIter(rest,
                               Append(out,
                                      [kind |-> From(event.kind), paths |-> paths,
                                       time |-> event.time]))

\* get_default_sync_path: the Diff directory of the user
GetDefaultSyncPath == SyncRoot

\* ServiceConfig::default()
ServiceConfigDefault == [sync_dir |-> <<>>, debounce_ms |-> 500]

\* a configuration whose sync_dir lists the default sync directory
ServiceConfigOfUser == [sync_dir |-> <<GetDefaultSyncPath>>, debounce_ms |-> 500]

\* toml::to_string(&config): the keys of the struct with their values, in
\* the order of its fields
TomlToString(config) ==
    <<[key |-> "chunk_config", value |-> "default"],
      [key |-> "sync_dir", value |-> config.sync_dir],
      [key |-> "debounce_ms", value |-> config.debounce_ms]>>

\* toml::from_slice::<ServiceConfig>(&contents)
FromSlice(contents) ==
    LET ValueOf(key) ==
            (CHOOSE k \in 1..Len(contents) : contents[k].key = key)
    IN  [sync_dir |-> contents[ValueOf("sync_dir")].value,
         debounce_ms |-> contents[ValueOf("debounce_ms")].value]

\* the path lies in the directory or below it
IsUnder(path, dir) ==
    /\ Len(dir.components) <= Len(path.components)
    /\ SubSeq(path.components, 1, Len(dir.components)) = dir.components

\* main as far as its loop.  .config is created in the default sync
\* directory when it is missing; when config.toml is missing the default
\* configuration is written to it and used, else the file is read; then the
\* debouncer is made and told to watch every directory of sync_dir.
Start ==
    /\ main.pc = "start"
    /\ LET app_config == IF disk.config_toml = <<>> THEN ServiceConfigDefault
                         ELSE FromSlice(disk.config_toml)
       IN  /\ disk' = [config_dir |-> TRUE,
                       config_toml |-> IF disk.config_toml = <<>>
                                       THEN TomlToString(ServiceConfigDefault)
                                       ELSE disk.config_toml]
           /\ watched' = Range(app_config.sync_dir)
    /\ main' = [main EXCEPT !.pc = "recv"]
    /\ UNCHANGED <<debouncer, events, os_events, previous, store, pipeline, diff>>

\* main before its loop has received a message
NoMain == [pc |-> "recv", exit |-> "none", received |-> "none"]

\* what is known of an iteration after its locals are dropped: its last
\* logical event, when the last event that passed the filter was a Remove
Carried(batch, derived) ==
    LET kept == Filter(batch)
    IN  IF kept # <<>> /\ kept[Len(kept)].kind = "Remove" /\ derived # <<>>
        THEN <<[kind |-> derived[Len(derived)].kind,
                paths |-> derived[Len(derived)].paths]>>
        ELSE <<>>

\* The debouncer adds a raw event to the batch of the current debounce
\* window: an event on paths below a directory it watches (RecursiveMode).  With the first event of a window the iteration before it is
\* over: its locals are dropped.
Debounce(kind, paths) ==
    /\ main.pc = "recv"
    /\ Len(debouncer) < MaxEvents
    /\ \A i \in 1..Len(paths) : \E dir \in watched : IsUnder(paths[i], dir)
    /\ debouncer' = Append(debouncer,
                           [kind |-> kind, paths |-> paths,
                            time |-> Len(debouncer) + 1])
    /\ events' = <<>>
    /\ os_events' = <<>>
    /\ main' = [main EXCEPT !.received = "none"]
    /\ previous' = IF events # <<>> THEN Carried(events, os_events) ELSE previous
    /\ UNCHANGED <<disk, watched, store, pipeline, diff>>

\* an iteration that remembers a Remove at the end of the batch before and
\* pairs it with a Create at the front of this one
RecvEventsAcrossBatches ==
    /\ main.pc = "recv"
    /\ debouncer # <<>>
    /\ LET kept == Filter(debouncer)
           built == BuildEventsIter(kept, <<>>)
           pairs == /\ previous # <<>>
                    /\ ~built.panicked
                    /\ IsAtomicUpdate(kept, previous[1].paths)
       IN  /\ events' = debouncer
           /\ os_events' = IF pairs
                            THEN <<[built.os_events[1] EXCEPT !.kind = "Update"]>>
                                 \o Tail(built.os_events)
                            ELSE built.os_events
           /\ main' = IF built.panicked
                      THEN [pc |-> "exited", exit |-> "panic", received |-> "Ok"]
                      ELSE [pc |-> "recv", exit |-> "none", received |-> "Ok"]
    /\ debouncer' = <<>>
    /\ UNCHANGED <<previous, disk, watched, store, pipeline, diff>>

\* The window ends, the debouncer sends Ok(batch), and an iteration of the
\* loop runs: recv, filter, build_events_iter.  Nothing else is done with
\* os_events.
RecvEvents ==
    /\ main.pc = "recv"
    /\ debouncer # <<>>
    /\ LET built == BuildEventsIter(Filter(debouncer), <<>>)
       IN  /\ events' = debouncer
           /\ os_events' = built.os_events
           /\ main' = IF built.panicked
                      THEN [pc |-> "exited", exit |-> "panic", received |-> "Ok"]
                      ELSE [pc |-> "recv", exit |-> "none", received |-> "Ok"]
    /\ debouncer' = <<>>
    /\ UNCHANGED <<previous, disk, watched, store, pipeline, diff>>

\* The debouncer sends Err(errors), a failure of the filesystem watch: the
\* pattern `while let Ok(events)` does not match, the loop is left and main
\* returns Ok(()).
RecvErrors ==
    /\ main.pc = "recv"
    /\ debouncer = <<>>
    /\ main' = [pc |-> "exited", exit |-> "Ok", received |-> "Err"]
    /\ events' = <<>>
    /\ os_events' = <<>>
    /\ UNCHANGED <<debouncer, previous, disk, watched, store, pipeline, diff>>

\* The channel is closed (the sender is dropped): recv() fails and `?`
\* returns the error from main.
RecvClosed ==
    /\ main.pc = "recv"
    /\ debouncer = <<>>
    /\ main' = [pc |-> "exited", exit |-> "Err", received |-> "RecvError"]
    /\ events' = <<>>
    /\ os_events' = <<>>
    /\ UNCHANGED <<debouncer, previous, disk, watched, store, pipeline, diff>>

\* ------------------------------------------------------------------ specifications

NoCall ==
    [op |-> "none", arg |-> <<>>, fault |-> 0, result |-> "Ok", out |-> 0, old |-> {}]

\* ------------------------------------------------------- difference engine

\* no call of calculate_diff
NoDiff ==
    [pc |-> "none", source |-> <<>>, fault |-> "none", at |-> 0,
     manifest_map |-> <<>>, result |-> <<>>]

\* the run of HashEngine::process that calculate_diff starts on its source
RunOf(d) ==
    [fn |-> "process_reader", source |-> d.source, fault |-> d.fault, at |-> d.at,
     channel_size |-> 0, num_threads |-> 0]

\* The records self.hash_engine.process(source) delivers, in the order of the
\* source: each item of the cutter, hashed.
RECURSIVE ChunkStream(_, _)
ChunkStream(r, c) ==
    IF NextItem(r, c) = <<>> THEN <<>>
    ELSE LET item == NextItem(r, c)[1]
         IN  <<Hash(r.fn, item)>>
             \o ChunkStream(r, [c EXCEPT !.cuts = IF item.ok THEN @ + 1 ELSE @,
                                         !.errors = IF item.ok THEN @ ELSE 1,
                                         !.index = @ + 1])

\* impl PartialEq for HashData: two records are equal when their hashes are
HashDataEq(res, hash_res) == res.hash = hash_res.hash

\* the closure of filter in calculate_diff: the records it keeps
KeptByFilter(hash_res, manifest_map) ==
    IF hash_res.ok
    THEN IF hash_res.index \in DOMAIN manifest_map
         THEN HashDataEq(hash_res, manifest_map[hash_res.index])
         ELSE TRUE
    ELSE TRUE

\* chunk_stream.par_bridge().filter(..): the records of the stream the
\* closure keeps
CalculateDiff(chunk_stream, manifest_map) ==
    SelectSeq(chunk_stream, LAMBDA hash_res : KeptByFilter(hash_res, manifest_map))

\* the orders a list can be collected in from a parallel iterator
Collected(records) ==
    {[k \in 1..Len(records) |-> records[order[k]]] :
        order \in {f \in [1..Len(records) -> 1..Len(records)] :
                      \A a, b \in 1..Len(records) : f[a] = f[b] => a = b}}

\* The manifest of a file as it was: the record of each of its chunks under
\* the chunk's index.
ManifestOf(source) ==
    LET old == ChunkStream(RunOf([NoDiff EXCEPT !.source = source]), NoCutter)
    IN  [index \in 0..(Len(old) - 1) |-> old[index + 1]]

\* DifferenceEngine::calculate_diff(source, manifest_map): the stream of the
\* source is filtered and collected, in the order the threads deliver.
Difference ==
    /\ diff.pc = "called"
    /\ \E result \in Collected(CalculateDiff(ChunkStream(RunOf(diff), NoCutter),
                                              diff.manifest_map)) :
           diff' = [diff EXCEPT !.pc = "returned", !.result = result]
    /\ UNCHANGED <<store, pipeline, watcher>>

\* an empty store, an engine that has not been called, and the service in
\* its loop, started with a configuration that lists the sync directory
InitEngine ==
    /\ files = {}
    /\ chunks = {}
    /\ sections = {}
    /\ last = NoCall
    /\ firstSize = {}
    /\ latest = {}
    /\ reindexes = 0
    /\ run = [i \in Invocations |-> NoRun]
    /\ injected = <<>>
    /\ deque = <<>>
    /\ par_bridge = [i \in Invocations |-> NoBridge]
    /\ stack = <<>>
    /\ cutter = [i \in Invocations |-> NoCutter]
    /\ work = <<>>
    /\ rx = [i \in Invocations |-> <<>>]
    /\ output_rx = [i \in Invocations |-> <<>>]
    /\ collector = [i \in Invocations |-> NoCollector]

Init ==
    /\ InitEngine
    /\ diff = NoDiff
    /\ debouncer = <<>>
    /\ events = <<>>
    /\ os_events = <<>>
    /\ previous = <<>>
    /\ main = NoMain
    /\ disk = [config_dir |-> TRUE, config_toml |-> TomlToString(ServiceConfigOfUser)]
    /\ watched = {GetDefaultSyncPath}

\* The chunk store alone: two digests, each offered with two sizes.
ChunkDigests == {"Ha", "Hb"}
ChunkSizes == {4096, 100}
ChunkEntries == [hash : ChunkDigests, size : ChunkSizes]

NextChunks ==
    \/ \E item \in ChunkEntries, fault \in 0..1 : StoreChunk(item, fault)
    \/ \E items \in SeqsUpTo(ChunkEntries, MaxBatch) :
           \E fault \in {0, Len(items)} : StoreAllChunks(items, fault)

SpecChunks == Init /\ [][NextChunks]_vars

\* The file store alone: two file ids, each offered as three versions (first
\* name and path, renamed, renamed with new content).
FileIds == {1, 2}
FileVersions ==
    { [name |-> "a.bin", path |-> "/x/a.bin", hash |-> "D"],
      [name |-> "b.bin", path |-> "/y/b.bin", hash |-> "D"],
      [name |-> "b.bin", path |-> "/y/b.bin", hash |-> "E"] }
FileEntries ==
    {[file_id |-> f, name |-> v.name, path |-> v.path, hash |-> v.hash] :
        f \in FileIds, v \in FileVersions}

NextFiles ==
    \/ \E item \in FileEntries, fault \in 0..1 : StoreFile(item, fault)
    \/ \E items \in SeqsUpTo(FileEntries, MaxBatch) :
           \E fault \in {0, Len(items)} : StoreAllFiles(items, fault)

SpecFiles == Init /\ [][NextFiles]_vars

\* The whole store under batches: every Persist operation of the three
\* tables, on two files, two chunks and sections at one offset.
BatchFileEntries ==
    {[file_id |-> f, name |-> "a.bin", path |-> "/x/a.bin", hash |-> "D"] :
        f \in FileIds}
BatchChunkEntries == [hash : ChunkDigests, size : {100}]
BatchSectionEntries ==
    [file_id : FileIds, chunk_hash : ChunkDigests, length : {100}, offset : {0}]

Next ==
    \/ \E item \in BatchFileEntries, fault \in 0..1 : StoreFile(item, fault)
    \/ \E items \in SeqsUpTo(BatchFileEntries, MaxBatch) :
           \E fault \in {0, Len(items)} : StoreAllFiles(items, fault)
    \/ \E item \in BatchChunkEntries, fault \in 0..1 : StoreChunk(item, fault)
    \/ \E items \in SeqsUpTo(BatchChunkEntries, MaxBatch) :
           \E fault \in {0, Len(items)} : StoreAllChunks(items, fault)
    \/ \E entry \in BatchSectionEntries, fault \in 0..1 : StoreSection(entry, fault)
    \/ \E entries \in SeqsUpTo(BatchSectionEntries, MaxBatch) :
           \E fault \in {0, Len(entries)} : StoreAllSections(entries, fault)

Spec == Init /\ [][Next]_vars

\* The section map under single stores and fetches: two files, two chunks,
\* sections at two offsets with two lengths.  File id 3 is never stored.
SectionEntries ==
    [file_id : FileIds, chunk_hash : ChunkDigests, length : {100, 50},
     offset : {0, 100}]
FetchKeys == FileIds \cup {3}

NextSections ==
    \/ \E item \in BatchFileEntries : StoreFile(item, 0)
    \/ \E item \in BatchChunkEntries : StoreChunk(item, 0)
    \/ \E entry \in SectionEntries, fault \in 0..1 : StoreSection(entry, fault)
    \/ \E key \in FetchKeys : FetchBySections(key)
    \/ \E keys \in SeqsUpTo(FetchKeys, MaxKeys) : FetchManySections(keys)

SpecSections == Init /\ [][NextSections]_vars

\* Reindexing: a file row is stored, then file 1 is indexed again and again
\* with new contents of up to MaxLen bytes.
Bytes == {0, 1}
Sources == SeqsUpTo(Bytes, MaxLen)

NextReindex ==
    \/ \E item \in BatchFileEntries : StoreFile(item, 0)
    \/ \E source \in Sources : Reindex(1, source)

SpecReindex == Init /\ [][NextReindex]_vars

\* Every operation of the store side by side: the Persist and the Fetch
\* operations of the three tables on one file under two names, two chunks and
\* the sections of the file at one offset, with keys that are stored and keys
\* that are not.
FrameFiles == {e \in FileEntries : e.file_id = 1 /\ e.hash = "D"}
FrameSections == {e \in BatchSectionEntries : e.file_id = 1}
FrameKeys == {1, 3}
FrameDigests == {"Ha", "Hc"}

NextFrame ==
    \/ \E item \in FrameFiles, fault \in 0..1 : StoreFile(item, fault)
    \/ \E items \in SeqsUpTo(FrameFiles, MaxBatch) :
           \E fault \in {0, Len(items)} : StoreAllFiles(items, fault)
    \/ \E item \in BatchChunkEntries, fault \in 0..1 : StoreChunk(item, fault)
    \/ \E items \in SeqsUpTo(BatchChunkEntries, MaxBatch) :
           \E fault \in {0, Len(items)} : StoreAllChunks(items, fault)
    \/ \E entry \in FrameSections, fault \in 0..1 : StoreSection(entry, fault)
    \/ \E entries \in SeqsUpTo(FrameSections, MaxBatch) :
           \E fault \in {0, Len(entries)} : StoreAllSections(entries, fault)
    \/ \E key \in FrameKeys, fault \in 0..1 : FetchByFiles(key, fault)
    \/ \E keys \in SeqsUpTo(FrameKeys, MaxKeys), fault \in 0..1 :
           FetchManyFiles(keys, fault)
    \/ \E key \in FrameDigests, fault \in 0..1 : FetchByChunks(key, fault)
    \/ \E keys \in SeqsUpTo(FrameDigests, MaxKeys), fault \in 0..1 :
           FetchManyChunks(keys, fault)
    \/ \E key \in FrameKeys : FetchBySections(key)
    \/ \E keys \in SeqsUpTo(FrameKeys, MaxKeys) : FetchManySections(keys)

SpecFrame == Init /\ [][NextFrame]_vars

\* Fetches of files and chunks: single stores fill the two tables, file id 3
\* and digest "Hc" are never stored.
ChunkKeys == ChunkDigests \cup {"Hc"}

NextFetch ==
    \/ \E item \in FileEntries : StoreFile(item, 0)
    \/ \E item \in BatchChunkEntries : StoreChunk(item, 0)
    \/ \E key \in FetchKeys, fault \in 0..1 : FetchByFiles(key, fault)
    \/ \E keys \in SeqsUpTo(FetchKeys, MaxKeys), fault \in 0..1 :
           FetchManyFiles(keys, fault)
    \/ \E key \in ChunkKeys, fault \in 0..1 : FetchByChunks(key, fault)
    \/ \E keys \in SeqsUpTo(ChunkKeys, MaxKeys), fault \in 0..1 :
           FetchManyChunks(keys, fault)

SpecFetch == Init /\ [][NextFetch]_vars

\* The adapter on new files: every source of up to MaxSource bytes is cut and
\* persisted for a file that has no sections yet.
NewSources == SeqsUpTo(Bytes, MaxSource)

NextAdapter ==
    \E file \in BatchFileEntries, source \in NewSources : Index(file, source)

SpecAdapter == Init /\ [][NextAdapter]_vars

\* The pipeline on sources that are read without error: one call of
\* get_chunk_hashes, of HashEngine::process over a path or of
\* HashEngine::process over a reader, on a source of up to MaxLen bytes; the
\* caller of process drains the iterator.  When the call is over, the same
\* source is given to the adapter and persisted, before or after a file with
\* the bytes IndexedBefore.
IndexedBefore == <<0, 1>>

Fns == {"get_chunk_hashes", "process", "process_reader"}

CallOver == collector[1].pc \in {"ended", "returned"}

NextPipeline ==
    \/ \E fn \in Fns, source \in Sources, channel_size \in 1..MaxChannelSize,
          num_threads \in 1..MaxThreads :
           Call(1, fn, source, "none", 0, channel_size, num_threads)
    \/ \E t \in Threads : TakeJob(t)
    \/ \E t \in Threads : CutterCut(t)
    \/ \E t \in Threads : CutterSend(t)
    \/ \E t \in Threads : CutterEnd(t)
    \/ \E t \in Threads : ParBridge(t)
    \/ \E t \in Threads : HasherRecv(t)
    \/ \E t \in Threads : HasherSend(t)
    \/ \E t \in Threads : HasherEnd(t)
    \/ \E t \in Threads : JoinReturn(t)
    \/ \E t \in Threads : ScopeReturn(t)
    \/ IterNext(1)
    \/ IterEnd(1)
    \/ \E t \in Threads : CollectorRecv(t)
    \/ \E t \in Threads : CollectorEnd(t)
    \/ \E file \in BatchFileEntries, source \in {run[1].source, IndexedBefore} :
           CallOver /\ Index(file, source)

SpecPipeline == Init /\ [][NextPipeline]_vars

\* The pipeline on sources that fail: the file cannot be opened, or the read
\* after chunk 0 or 1 fails once.
Faults == {"open", "once"}
FaultAt == 0..1

NextFaults ==
    \/ \E fn \in Fns, source \in Sources, fault \in Faults, at \in FaultAt,
          channel_size \in 1..MaxChannelSize, num_threads \in 1..MaxThreads :
           /\ fault = "open" => at = 0 /\ fn # "process_reader"
           /\ Call(1, fn, source, fault, at, channel_size, num_threads)
    \/ \E t \in Threads : TakeJob(t)
    \/ \E t \in Threads : CutterCut(t)
    \/ \E t \in Threads : CutterSend(t)
    \/ \E t \in Threads : CutterEnd(t)
    \/ \E t \in Threads : ParBridge(t)
    \/ \E t \in Threads : HasherRecv(t)
    \/ \E t \in Threads : HasherSend(t)
    \/ \E t \in Threads : HasherEnd(t)
    \/ \E t \in Threads : JoinReturn(t)
    \/ \E t \in Threads : ScopeReturn(t)
    \/ IterNext(1)
    \/ IterEnd(1)
    \/ \E t \in Threads : CollectorRecv(t)
    \/ \E t \in Threads : CollectorEnd(t)

SpecFaults == Init /\ [][NextFaults]_vars

\* HashEngine::process whose caller may drop the iterator before its end.
NextDrop ==
    \/ \E fn \in {"process", "process_reader"}, source \in Sources,
          channel_size \in 1..MaxChannelSize, num_threads \in 1..MaxThreads :
           Call(1, fn, source, "none", 0, channel_size, num_threads)
    \/ \E t \in Threads : TakeJob(t)
    \/ \E t \in Threads : CutterCut(t)
    \/ \E t \in Threads : CutterSend(t)
    \/ \E t \in Threads : CutterEnd(t)
    \/ \E t \in Threads : ParBridge(t)
    \/ \E t \in Threads : HasherRecv(t)
    \/ \E t \in Threads : HasherSend(t)
    \/ \E t \in Threads : HasherEnd(t)
    \/ \E t \in Threads : JoinReturn(t)
    \/ \E t \in Threads : ScopeReturn(t)
    \/ IterNext(1)
    \/ IterEnd(1)
    \/ Drop(1)

SpecDrop == Init /\ [][NextDrop]_vars

\* HashEngine::process over a path whose caller drains the iterator, on a pool
\* of MaxThreads threads, with sources that fail: at open, at one read, or at
\* every read from some chunk on.  Every thread of the pool that can take a
\* step takes one in the end, and so does the caller.
NextProcess ==
    \/ \E source \in Sources, fault \in Faults \cup {"always"}, at \in FaultAt,
          channel_size \in 1..MaxChannelSize :
           /\ fault = "open" => at = 0
           /\ Call(1, "process", source, fault, at, channel_size, MaxThreads)
    \/ \E t \in Threads : TakeJob(t)
    \/ \E t \in Threads : CutterCut(t)
    \/ \E t \in Threads : CutterSend(t)
    \/ \E t \in Threads : CutterEnd(t)
    \/ \E t \in Threads : ParBridge(t)
    \/ \E t \in Threads : HasherRecv(t)
    \/ \E t \in Threads : HasherSend(t)
    \/ \E t \in Threads : HasherEnd(t)
    \/ \E t \in Threads : JoinReturn(t)
    \/ IterNext(1)
    \/ IterEnd(1)

FairSpecProcess ==
    /\ Init
    /\ [][NextProcess]_vars
    /\ WF_vars(PoolStep)
    /\ WF_vars(CutterStep)
    /\ WF_vars(HasherStep)
    /\ WF_vars(IteratorStep)

\* HashEngine::process, over a path and over a reader, on sources of up to
\* MaxChunks chunks of the largest size; the caller drains the iterator at
\* its own pace.
LongSources == {[k \in 1..(n * MaxChunkSize) |-> 0] : n \in 0..MaxChunks}

NextQueues ==
    \/ \E fn \in {"process", "process_reader"}, source \in LongSources,
          channel_size \in 1..MaxChannelSize, num_threads \in 1..MaxThreads :
           Call(1, fn, source, "none", 0, channel_size, num_threads)
    \/ \E t \in Threads : TakeJob(t)
    \/ \E t \in Threads : CutterCut(t)
    \/ \E t \in Threads : CutterSend(t)
    \/ \E t \in Threads : CutterEnd(t)
    \/ \E t \in Threads : ParBridge(t)
    \/ \E t \in Threads : HasherRecv(t)
    \/ \E t \in Threads : HasherSend(t)
    \/ \E t \in Threads : HasherEnd(t)
    \/ \E t \in Threads : JoinReturn(t)
    \/ \E t \in Threads : ScopeReturn(t)
    \/ IterNext(1)
    \/ IterEnd(1)

SpecQueues == Init /\ [][NextQueues]_vars

\* HashEngine::process over a path on a pool of any size from one thread on,
\* with sources that do not fail; the caller drains the iterator.  Every
\* thread of the pool that can take a step takes one in the end, and so does
\* the caller.
NextDrain ==
    \/ \E source \in Sources, channel_size \in 1..MaxChannelSize,
          num_threads \in 1..MaxThreads :
           Call(1, "process", source, "none", 0, channel_size, num_threads)
    \/ \E t \in Threads : TakeJob(t)
    \/ \E t \in Threads : CutterCut(t)
    \/ \E t \in Threads : CutterSend(t)
    \/ \E t \in Threads : CutterEnd(t)
    \/ \E t \in Threads : ParBridge(t)
    \/ \E t \in Threads : HasherRecv(t)
    \/ \E t \in Threads : HasherSend(t)
    \/ \E t \in Threads : HasherEnd(t)
    \/ \E t \in Threads : JoinReturn(t)
    \/ IterNext(1)
    \/ IterEnd(1)

FairSpecDrain ==
    /\ Init
    /\ [][NextDrain]_vars
    /\ WF_vars(PoolStep)
    /\ WF_vars(CutterStep)
    /\ WF_vars(HasherStep)
    /\ WF_vars(IteratorStep)

\* Several callers, each on a thread of its own, call HashEngine::process
\* over a path on one engine with a pool of MaxThreads threads, and each
\* drains the iterator it got; the sources are the empty one and two of
\* MaxLen bytes.  Every thread of the pool that can take a step takes one in
\* the end, and so does every caller.
Worker(t) ==
    /\ t \in Threads
    /\ \/ TakeJob(t)
       \/ CutterCut(t)
       \/ CutterSend(t)
       \/ CutterEnd(t)
       \/ ParBridge(t)
       \/ HasherRecv(t)
       \/ HasherSend(t)
       \/ HasherEnd(t)
       \/ JoinReturn(t)

Caller(i) == SpawnHasher(i) \/ IterNext(i) \/ IterEnd(i)

SharedSources == {<<>>, [k \in 1..MaxLen |-> 0], [k \in 1..MaxLen |-> 1]}

NextShared ==
    \/ \E i \in Invocations, source \in SharedSources, channel_size \in 1..MaxChannelSize :
           SpawnCutter(i, source, channel_size, MaxThreads)
    \/ \E i \in Invocations : SpawnHasher(i)
    \/ \E t \in Threads : TakeJob(t)
    \/ \E t \in Threads : CutterCut(t)
    \/ \E t \in Threads : CutterSend(t)
    \/ \E t \in Threads : CutterEnd(t)
    \/ \E t \in Threads : ParBridge(t)
    \/ \E t \in Threads : HasherRecv(t)
    \/ \E t \in Threads : HasherSend(t)
    \/ \E t \in Threads : HasherEnd(t)
    \/ \E t \in Threads : JoinReturn(t)
    \/ \E i \in Invocations : IterNext(i)
    \/ \E i \in Invocations : IterEnd(i)

FairSpecShared ==
    /\ Init
    /\ [][NextShared]_vars
    /\ \A t \in 1..MaxThreads : WF_vars(Worker(t))
    /\ \A i \in Invocations : WF_vars(Caller(i))

\* The service from its start: the disk of a first run (no .config, or a
\* .config without config.toml), of a run after a first run, and of a run
\* whose config.toml lists the sync directory; then the watcher loop.
StartDisks ==
    {[config_dir |-> FALSE, config_toml |-> <<>>],
     [config_dir |-> TRUE, config_toml |-> <<>>],
     [config_dir |-> TRUE, config_toml |-> TomlToString(ServiceConfigDefault)],
     [config_dir |-> TRUE, config_toml |-> TomlToString(ServiceConfigOfUser)]}

InitStartup ==
    /\ InitEngine
    /\ diff = NoDiff
    /\ debouncer = <<>>
    /\ events = <<>>
    /\ os_events = <<>>
    /\ previous = <<>>
    /\ main = [NoMain EXCEPT !.pc = "start"]
    /\ disk \in StartDisks
    /\ watched = {}

StartEvents ==
    [kind : {"Create", "Modify", "Remove"}, paths : {<<Utf8Path(<<"s", "f">>)>>}]

NextStartup ==
    \/ Start
    \/ \E event \in StartEvents : Debounce(event.kind, event.paths)
    \/ RecvEvents
    \/ RecvErrors
    \/ RecvClosed

SpecStartup == InitStartup /\ [][NextStartup]_vars

\* calculate_diff on every source of up to MaxLen bytes, with and without a
\* read that fails, against the manifest of every such source.
InitDiff ==
    /\ InitEngine
    /\ debouncer = <<>>
    /\ events = <<>>
    /\ os_events = <<>>
    /\ previous = <<>>
    /\ main = NoMain
    /\ disk = [config_dir |-> TRUE, config_toml |-> TomlToString(ServiceConfigOfUser)]
    /\ watched = {GetDefaultSyncPath}
    /\ \E source \in Sources, old \in Sources, fault \in {"none", "once"},
          at \in 0..1 :
           /\ fault = "none" => at = 0
           /\ diff = [pc |-> "called", source |-> source, fault |-> fault,
                      at |-> at, manifest_map |-> ManifestOf(old),
                      result |-> <<>>]

NextDiff == Difference

SpecDiff == InitDiff /\ [][NextDiff]_vars

\* The watcher loop: batches of up to MaxEvents raw events on a file of the
\* sync directory, another file, a pair of paths one of which lies in .config,
\* and the sync directory itself; watch failures and the end of the channel.
File == Utf8Path(<<"s", "f">>)
OtherFile == Utf8Path(<<"s", "g">>)

RawEvents ==
    [kind : {"Create", "Modify", "Remove"},
     paths : {<<File>>, <<OtherFile>>, <<File, ConfigPath>>}]
    \cup [kind : {"Access", "Any", "Other"}, paths : {<<File>>}]
    \cup [kind : {"Remove"}, paths : {<<SyncRoot>>}]

NextWatcher ==
    \/ \E event \in RawEvents : Debounce(event.kind, event.paths)
    \/ RecvEvents
    \/ RecvErrors
    \/ RecvClosed

SpecWatcher == Init /\ [][NextWatcher]_vars

\* The watcher loop on a file system whose names are bytes: events on a file
\* of the sync directory and on a file whose name is not valid UTF-8.
RawFile == [components |-> <<"s", "r">>, utf8 |-> FALSE]

OsPathEvents ==
    [kind : {"Create", "Remove", "Access"}, paths : {<<File>>, <<RawFile>>}]

NextOsPaths ==
    \/ \E event \in OsPathEvents : Debounce(event.kind, event.paths)
    \/ RecvEvents
    \/ RecvErrors
    \/ RecvClosed

SpecOsPaths == Init /\ [][NextOsPaths]_vars

\* ------------------------------------------------------------------ claims

\* C1: after any sequence of Persist-chunk calls the chunks table holds
\* exactly one row per digest ever written by a committed call, with the size
\* of the first such write; a chunk write that meets no connection fault
\* succeeds, also when its digest is already there with another size.
C1_ChunkDedup ==
    /\ chunks = firstSize
    /\ \A r1, r2 \in chunks : r1.hash = r2.hash => r1 = r2
    /\ (last.op \in {"store_chunk", "store_all_chunk"} /\ last.fault = 0)
           => last.result = "Ok"

\* a committed batch that repeats a digest with two sizes, kept with the first
C1_Witness ==
    /\ last.op = "store_all_chunk"
    /\ last.result = "Ok"
    /\ Len(last.arg) = 2
    /\ last.arg[1].hash = last.arg[2].hash
    /\ last.arg[1].size # last.arg[2].size
    /\ \E r \in chunks : r.hash = last.arg[1].hash /\ r.size = last.arg[1].size

\* C6: after any sequence of Persist-file calls the files table holds at most
\* one row per file id, and the rows are exactly the entries of the latest
\* committed persist of each id (name, path and digest); a rename adds no row.
C6_FileUpsert ==
    /\ files = latest
    /\ \A r1, r2 \in files : r1.file_id = r2.file_id => r1 = r2

\* a rename: a store of an id whose row had another name and path
C6_Witness ==
    /\ last.op = "store_file"
    /\ last.result = "Ok"
    /\ \E o \in last.old : o.name # last.arg[1].name /\ o.path # last.arg[1].path
    /\ Cardinality({r \in files : r.file_id = last.arg[1].file_id}) = 1
    /\ last.arg[1] \in files

\* what the claims say of a returned list of sections: all rows of file key,
\* each once, by strictly ascending offset
AllSectionsOf(rows, key) ==
    /\ Range(rows) = {r \in sections : r.file_id = key}
    /\ Len(rows) = Cardinality({r \in sections : r.file_id = key})
    /\ \A i, j \in 1..Len(rows) : i < j => rows[i].offset < rows[j].offset

HasSections(key) == \E r \in sections : r.file_id = key

StoreAllOps == {"store_all_file", "store_all_chunk", "store_all_section"}

\* C3: when a row of a store_all batch fails (the loop ends before the last
\* row), store_all returns an error and files, chunks and file_sections are
\* exactly as before the call, also when earlier rows of the batch had run.
C3_BatchAtomic ==
    [][(last'.op \in StoreAllOps /\ last'.out < Len(last'.arg))
          => /\ last'.result = "DbError"
             /\ files' = files
             /\ chunks' = chunks
             /\ sections' = sections]_vars

\* a section batch that failed at its second row: the first row is not there
C3_Witness ==
    /\ last.op = "store_all_section"
    /\ last.result = "DbError"
    /\ Len(last.arg) = 2
    /\ last.out = 1
    /\ last.arg[1] \notin sections

\* C4: a section store or store_all with a section whose chunk digest has no
\* row in chunks, or whose file id has no row in files, returns a database
\* error and leaves the three tables unchanged.
C4_ForeignKeyRejected ==
    [][(/\ last'.op \in {"store_section", "store_all_section"}
        /\ \E i \in 1..Len(last'.arg) :
              \/ \A c \in chunks : c.hash # last'.arg[i].chunk_hash
              \/ \A f \in files : f.file_id # last'.arg[i].file_id)
          => /\ last'.result = "DbError"
             /\ files' = files
             /\ chunks' = chunks
             /\ sections' = sections]_vars

\* a store_all met no connection fault, its file is there, its chunk is not
C4_Witness ==
    /\ last.op = "store_all_section"
    /\ last.fault = 0
    /\ last.result = "DbError"
    /\ Len(last.arg) = 2
    /\ \E f \in files : f.file_id = last.arg[2].file_id
    /\ \A c \in chunks : c.hash # last.arg[2].chunk_hash
    /\ last.arg[1] \notin sections

\* C5: in every reachable store state every section row's chunk digest has a
\* row in chunks and its file id has a row in files.
C5_ReferentialIntegrity ==
    \A s \in sections :
        /\ \E c \in chunks : c.hash = s.chunk_hash
        /\ \E f \in files : f.file_id = s.file_id

\* a section was replaced by one of another chunk, both files have sections
C5_Witness ==
    /\ last.op = "store_section"
    /\ last.result = "Ok"
    /\ \E o \in last.old : o.chunk_hash # last.arg[1].chunk_hash
    /\ \A f \in FileIds : HasSections(f)

C8_SectionFrame ==
    [][last'.op = "store_section"
          => {r \in sections' : ~SameKey(r, last'.arg[1])}
                 = {r \in sections : ~SameKey(r, last'.arg[1])}]_vars

\* offset 0 was rewritten with a new digest while the file has a row at
\* offset 100 and the other file has rows
C8_Witness ==
    /\ last.op = "store_section"
    /\ last.result = "Ok"
    /\ last.arg[1].offset = 0
    /\ \E o \in last.old : o.chunk_hash # last.arg[1].chunk_hash
    /\ \E r \in sections : r.file_id = last.arg[1].file_id /\ r.offset = 100
    /\ \E r \in sections : r.file_id # last.arg[1].file_id

\* C9: fetch_by returns all section rows of the file and only those, by
\* strictly ascending offset; for a file without section rows it returns
\* NotFound.
C9_FetchBy ==
    last.op = "fetch_by_section"
        => IF HasSections(last.arg[1])
           THEN last.result = "Ok" /\ AllSectionsOf(last.out, last.arg[1])
           ELSE last.result = "NotFound"

\* a fetch of a file with two sections while the other file has sections too
C9_Witness ==
    /\ last.op = "fetch_by_section"
    /\ last.result = "Ok"
    /\ Len(last.out) = 2
    /\ \E r \in sections : r.file_id # last.arg[1]

\* C10: fetch_many returns one group per requested file that has sections:
\* every group is non-empty and is all sections of one requested file by
\* ascending offset, no two groups are of the same file, a requested file
\* without sections has no group, an empty key list gives an empty result.
C10_FetchMany ==
    last.op = "fetch_many_section"
        => /\ last.result = "Ok"
           /\ \A i \in 1..Len(last.out) :
                 /\ last.out[i] # <<>>
                 /\ last.out[i][1].file_id \in Range(last.arg)
                 /\ AllSectionsOf(last.out[i], last.out[i][1].file_id)
           /\ \A i, j \in 1..Len(last.out) :
                 i # j => last.out[i][1].file_id # last.out[j][1].file_id
           /\ \A key \in Range(last.arg) :
                 HasSections(key) <=>
                     \E i \in 1..Len(last.out) : last.out[i][1].file_id = key
           /\ last.arg = <<>> => last.out = <<>>

\* two groups returned, one of two sections
C10_Witness ==
    /\ last.op = "fetch_many_section"
    /\ Len(last.out) = 2
    /\ \E i \in 1..2 : Len(last.out[i]) = 2

\* first offset 0, each offset the previous offset plus the previous length
Contiguous(rows) ==
    /\ rows # <<>> => rows[1].offset = 0
    /\ \A i \in 1..(Len(rows) - 1) :
          rows[i + 1].offset = rows[i].offset + rows[i].length

\* C2: after any sequence of reindexes of a file (store_all of the chunks and
\* then of the sections chunk_source gave for the current bytes), the sections
\* fetch_by returns for it start at offset 0, have no gap and no overlap and
\* have lengths summing to the size of the bytes indexed last.
C2_ReindexContiguous ==
    (last.op = "reindex" /\ last.result = "Ok")
        => LET fetched == SectionFetchBy(sections, last.arg[1].file_id).rows
           IN  /\ Contiguous(fetched)
               /\ SumLengths(fetched) = Len(last.arg[1].source)

\* the rows a fetch of files or of chunks was asked for and that are there
Requested(op, keys) ==
    IF op \in {"fetch_by_file", "fetch_many_file"}
    THEN {r \in files : r.file_id \in Range(keys)}
    ELSE {r \in chunks : r.hash \in Range(keys)}

\* the requested keys that have a row
PresentKeys(op, keys) ==
    IF op \in {"fetch_by_file", "fetch_many_file"}
    THEN {k \in Range(keys) : \E r \in files : r.file_id = k}
    ELSE {k \in Range(keys) : \E r \in chunks : r.hash = k}

\* C11: for files and for chunks, a fetch_many that meets no connection fault
\* returns Ok with exactly one row for each distinct requested key that is
\* present and nothing for an absent key; fetch_many of an empty key list
\* returns Ok and no row; a fetch_by that meets no connection fault returns
\* the row of a present key and NotFound for an absent one.
C11_FetchFilesAndChunks ==
    /\ (last.op \in {"fetch_many_file", "fetch_many_chunk"} /\ last.fault = 0)
          => /\ last.result = "Ok"
             /\ Range(last.out) = Requested(last.op, last.arg)
             /\ Len(last.out) = Cardinality(PresentKeys(last.op, last.arg))
    /\ (last.op \in {"fetch_many_file", "fetch_many_chunk"} /\ last.arg = <<>>)
          => last.result = "Ok" /\ last.out = <<>>
    /\ (last.op \in {"fetch_by_file", "fetch_by_chunk"} /\ last.fault = 0)
          => IF PresentKeys(last.op, last.arg) # {}
             THEN /\ last.result = "Ok"
                  /\ Len(last.out) = 1
                  /\ Range(last.out) = Requested(last.op, last.arg)
             ELSE last.result = "NotFound"

\* a fetch_many of files asked for a stored id twice and for an id that was
\* never stored, and returned the one row
C11_Witness ==
    /\ last.op = "fetch_many_file"
    /\ last.result = "Ok"
    /\ \E f \in FileIds : Range(last.arg) = {f, 3} /\ Len(last.arg) = 2
    /\ Len(last.out) = 1
    /\ Cardinality(files) = 2

RECURSIVE SumSizes(_)
SumSizes(entries) ==
    IF entries = <<>> THEN 0 ELSE Head(entries).size + SumSizes(Tail(entries))

\* C12: the sections chunk_source returns for a source start at offset 0, each
\* following offset is the previous offset plus the previous length, and the
\* lengths sum to the number of bytes of the source; after the file row, the
\* chunks and the sections are persisted for a file without earlier sections,
\* the sections fetch_by finds for the file have the same property (for the
\* empty source it finds none: NotFound).
C12_SectionsCoverSource ==
    last.op = "index"
        => LET source == last.arg[1].source
               fetched == SectionFetchBy(sections, last.arg[1].file_id)
           IN  /\ Contiguous(last.out.sections)
               /\ SumLengths(last.out.sections) = Len(source)
               /\ last.result = "Ok"
               /\ fetched.result = IF source = <<>> THEN "NotFound" ELSE "Ok"
               /\ fetched.rows = last.out.sections
               /\ Contiguous(fetched.rows)
               /\ SumLengths(fetched.rows) = Len(source)

\* a source of MaxSource bytes was cut in two or more sections and persisted
\* while the other file has sections too
C12_Witness ==
    /\ last.op = "index"
    /\ Len(last.arg[1].source) = MaxSource
    /\ Len(SectionFetchBy(sections, last.arg[1].file_id).rows) >= 2
    /\ \E r \in sections : r.file_id # last.arg[1].file_id

InIndexOrder(map) == [i \in 1..Cardinality(DOMAIN map) |-> map[i - 1]]

\* C14: when no stage fails, get_chunk_hashes returns Ok with a map that has
\* one entry per chunk the cutter cut, under the keys 0..n-1; the offsets of
\* the entries start at 0 and are contiguous and their lengths sum to the size
\* of the file.
C14_CompleteMap ==
    (run[1].fn = "get_chunk_hashes" /\ collector[1].pc = "returned")
        => /\ collector[1].result = "Ok"
           /\ DOMAIN collector[1].map = 0..(cutter[1].cuts - 1)
           /\ cutter[1].cuts = Len(Chunks(run[1]))
           /\ Contiguous(InIndexOrder(collector[1].map))
           /\ SumLengths(InIndexOrder(collector[1].map)) = Len(run[1].source)

\* the records a run over the source delivers, by the source alone: one per
\* chunk of the source, with the chunk's position and the digest of its bytes
RecordsOf(r) ==
    {IF r.fn = "process_reader"
     THEN [ok |-> TRUE, index |-> i - 1, chunk |-> Chunks(r)[i].data,
           hash |-> Blake3(Chunks(r)[i].data)]
     ELSE [ok |-> TRUE, index |-> i - 1, hash |-> Blake3(Chunks(r)[i].data),
           offset |-> Chunks(r)[i].offset, length |-> Chunks(r)[i].length]
        : i \in 1..Len(Chunks(r))}

\* C15: the records a run of process delivers are fixed by the source bytes
\* and the configuration: whatever the interleaving of the cutter and the
\* hashing threads, every delivered record is a record of the source, and a
\* stream that has ended has delivered each record of the source exactly
\* once; so two runs on the same bytes deliver the same set of records and
\* differ at most in the order of delivery.
C15_SameRecords ==
    /\ \A k \in 1..Len(collector[1].received) :
          collector[1].received[k] \in RecordsOf(run[1])
    /\ collector[1].pc = "ended"
          => /\ Range(collector[1].received) = RecordsOf(run[1])
             /\ Len(collector[1].received) = Cardinality(RecordsOf(run[1]))

\* a stream has ended that delivered the record of chunk 1 before the record
\* of chunk 0
C15_Witness ==
    /\ collector[1].pc = "ended"
    /\ Len(collector[1].received) = 2
    /\ collector[1].received[1].index = 1
    /\ collector[1].received[2].index = 0
    /\ collector[1].received[1].hash # collector[1].received[2].hash

\* the reason of the error record the cutter sends in a run with a fault
ReasonOf(r) == IF r.fault = "open" THEN "IoError" ELSE "ChunkError"

\* C16: when a record has failed (the file cannot be opened, a read fails),
\* get_chunk_hashes returns HashError, and the list of reasons it carries is
\* not empty and holds the reason of the failed record.
C16_AggregateError ==
    (run[1].fn = "get_chunk_hashes" /\ collector[1].pc = "returned" /\ cutter[1].errors > 0)
        => /\ collector[1].result = "HashError"
           /\ collector[1].errs # <<>>
           /\ \E k \in 1..Len(collector[1].errs) :
                 collector[1].errs[k].reason = ReasonOf(run[1])

\* C17: after the first error of a run the pipeline drains: the cutter ends,
\* the hashing threads leave the bridge and the stream of the caller ends.
C17_DrainsAfterError ==
    (cutter[1].errors > 0)
        ~> (cutter[1].pc = "done" /\ par_bridge[1].pc = "done" /\ collector[1].pc = "ended")

\* C18: once the iterator of process is dropped, a hashing thread whose send
\* has failed has left the pipeline: it takes no further chunk to hash.
C18_ExitOnSendFail ==
    [][\A t \in Threads : work[t].failed => work'[t].held = <<>>]_vars

\* C19: a call of process over a reader, on a pool of two or more threads,
\* never comes to a halt before the stream of its caller has ended: as long
\* as the stream has not ended, the cutter, a hashing thread, the pool or the
\* caller can take a step.
C19_ReaderStreamEnds ==
    (run[1].fn = "process_reader" /\ run[1].num_threads >= 2)
        => collector[1].pc = "ended" \/ ENABLED NextPipeline

SingleRecord(r) ==
    IF r.fn = "process_reader"
    THEN [ok |-> TRUE, index |-> 0, chunk |-> r.source, hash |-> Blake3(r.source)]
    ELSE [ok |-> TRUE, index |-> 0, hash |-> Blake3(r.source), offset |-> 0,
          length |-> Len(r.source)]

Surviving(batch) ==
    SelectSeq(batch,
              LAMBDA event :
                  /\ event.kind \in {"Create", "Modify", "Remove"}
                  /\ \A i \in 1..Len(event.paths) :
                        ".config" \notin Range(event.paths[i].components))

\* the path list of a raw event as a logical event carries it
Converted(paths) == [i \in 1..Len(paths) |-> paths[i].components]

\* the logical events derived from the raw event with the given time
DerivedFrom(time) == {k \in 1..Len(os_events) : os_events[k].time = time}

\* C22: in the batch an iteration of the watcher loop has classified, every
\* Remove that is followed, among the surviving events, directly by a Create
\* with the same path list has yielded exactly one logical event, an Update
\* with that path list, and the Create has yielded no logical event.
C22_AtomicSave ==
    main.received = "Ok"
        => LET s == Surviving(events)
           IN  \A i \in 1..(Len(s) - 1) :
                   (s[i].kind = "Remove" /\ s[i + 1].kind = "Create"
                        /\ s[i + 1].paths = s[i].paths)
                     => /\ Cardinality(DerivedFrom(s[i].time)) = 1
                        /\ \A k \in DerivedFrom(s[i].time) :
                              /\ os_events[k].kind = "Update"
                              /\ os_events[k].paths = Converted(s[i].paths)
                        /\ DerivedFrom(s[i + 1].time) = {}

\* a batch Remove(f), an event on .config that is filtered out, Create(f) was
\* classified as the single logical event Update(f)
C22_Witness ==
    /\ main.received = "Ok"
    /\ Len(events) = 3
    /\ events[1].kind = "Remove"
    /\ events[3].kind = "Create"
    /\ events[1].paths = events[3].paths
    /\ Len(Surviving(events)) = 2
    /\ Len(os_events) = 1
    /\ os_events[1].kind = "Update"

\* the raw event of the classified batch with the given time
RawAt(time) == events[time]

\* C23: every logical event an iteration of the watcher loop derives has kind
\* Create, Update or Remove and comes from a raw Create, Modify or Remove:
\* a raw Access, Any or Other yields no logical event, a logical Create comes
\* from a raw Create, a raw Modify yields an Update, a logical Remove comes
\* from a raw Remove, and an Update comes from a Modify or from a collapsed
\* Remove; a raw Create yields a Create unless the surviving event before it
\* is a Remove with the same path list.
C23_LogicalKinds ==
    main.received = "Ok"
        => /\ \A k \in 1..Len(os_events) :
                 /\ os_events[k].kind \in {"Create", "Update", "Remove"}
                 /\ os_events[k].kind = "Create"
                       => RawAt(os_events[k].time).kind = "Create"
                 /\ os_events[k].kind = "Remove"
                       => RawAt(os_events[k].time).kind = "Remove"
                 /\ os_events[k].kind = "Update"
                       => RawAt(os_events[k].time).kind \in {"Modify", "Remove"}
           /\ \A i \in 1..Len(events) :
                 /\ events[i].kind \in {"Access", "Any", "Other"}
                       => DerivedFrom(i) = {}
                 /\ (events[i].kind = "Modify" /\ events[i] \in Range(Surviving(events)))
                       => \E k \in DerivedFrom(i) : os_events[k].kind = "Update"
           /\ LET s == Surviving(events)
              IN  \A i \in 1..Len(s) :
                      /\ (s[i].kind = "Create"
                            /\ (i = 1 \/ s[i - 1].kind # "Remove"
                                      \/ s[i - 1].paths # s[i].paths))
                           => \E k \in DerivedFrom(s[i].time) :
                                  os_events[k].kind = "Create"
                      /\ (s[i].kind = "Remove"
                            /\ (i = Len(s) \/ s[i + 1].kind # "Create"
                                           \/ s[i + 1].paths # s[i].paths))
                           => \E k \in DerivedFrom(s[i].time) :
                                  os_events[k].kind = "Remove"

\* a batch Access, Modify, Create on one file was classified as Update, Create
C23_Witness ==
    /\ main.received = "Ok"
    /\ Len(events) = 3
    /\ events[1].kind = "Access"
    /\ events[2].kind = "Modify"
    /\ events[3].kind = "Create"
    /\ Len(os_events) = 2
    /\ os_events[1].kind = "Update"
    /\ os_events[2].kind = "Create"

\* C24: no logical event an iteration of the watcher loop derives carries a
\* path with a .config component, and a raw event with such a path among its
\* paths yields no logical event.
C24_NoInternalPath ==
    main.received = "Ok"
        => /\ \A k \in 1..Len(os_events) :
                 \A i \in 1..Len(os_events[k].paths) :
                     ".config" \notin Range(os_events[k].paths[i])
           /\ \A t \in 1..Len(events) :
                 (\E i \in 1..Len(events[t].paths) :
                      ".config" \in Range(events[t].paths[i].components))
                   => DerivedFrom(t) = {}

\* a batch with a Modify of a file and a Create whose second path lies in
\* .config was classified as the single logical event Update
C24_Witness ==
    /\ main.received = "Ok"
    /\ Len(events) = 2
    /\ events[1].kind = "Modify"
    /\ events[1].paths = <<File>>
    /\ events[2].kind = "Create"
    /\ events[2].paths = <<File, ConfigPath>>
    /\ Len(os_events) = 1
    /\ os_events[1].kind = "Update"

\* the batch holds a Remove whose target is the sync root itself
RemovesSyncRoot(batch) ==
    \E i \in 1..Len(batch) :
        /\ batch[i].kind = "Remove"
        /\ \E p \in 1..Len(batch[i].paths) : batch[i].paths[p] = SyncRoot

\* C25: when the batch an iteration has received holds a Remove of the sync
\* root, the watcher loop has ended with a fatal error: main has exited
\* with an error and receives no further batch.
C25_SyncRootRemoved ==
    (main.received = "Ok" /\ RemovesSyncRoot(events))
        => main.pc = "exited" /\ main.exit = "Err"

\* C26: after the debouncer has delivered an error result the watcher loop is
\* still receiving, and main has left the loop only after the channel was
\* closed or the sync root was removed, with an exit that is not success.
C26_WatchFailureSurvived ==
    /\ main.received = "Err" => main.pc = "recv"
    /\ main.pc = "exited"
          => /\ main.received = "RecvError" \/ RemovesSyncRoot(events)
             /\ main.exit # "Ok"

\* C27: an iteration of the watcher loop that has derived a logical Create or
\* Update has run the adapter and written the file row, the chunk rows and
\* the section rows: the last call of the store is the write of an indexed
\* file and the file table holds a row.
C27_Dispatched ==
    (main.received = "Ok"
        /\ \E k \in 1..Len(os_events) : os_events[k].kind \in {"Create", "Update"})
        => last.op = "index" /\ files # {}


\* the chunks call i has cut and its caller has not taken from the iterator
NotTaken(i) == cutter[i].cuts - Len(collector[i].received)

C29_ProcessTerminates ==
    (run[1].fn = "process")
        ~> (/\ collector[1].pc = "ended"
            /\ Len(collector[1].received) = Len(Chunks(run[1])))


\* C30: when several calls of process run at the same time on one pool and
\* each caller drains its own stream, every stream holds only records of its
\* own source and every call comes to its end with one record per chunk,
\* also when there are as many calls as the pool has threads.
C30_SharedPool ==
    /\ [](\A i \in Invocations : \A k \in 1..Len(collector[i].received) :
             collector[i].received[k] \in RecordsOf(run[i]))
    /\ \A i \in Invocations :
          (run[i].fn = "process")
              ~> (/\ collector[i].pc = "ended"
                  /\ Len(collector[i].received) = Len(Chunks(run[i])))


\* the chunk of the source of call i that has the index of the record
ChunkOf(i, record) == Chunks(run[i])[record.index + 1]

\* C31: while the caller of process drains the stream of a source with n
\* chunks and no error, every record it has taken carries an index of
\* 0..n-1 that no other record taken carries, and the offset, the length and
\* the digest (over a reader: the bytes and the digest) of the chunk that has
\* this index in source order; sorted by index the records are sorted by
\* offset; and at the end of the stream it has taken exactly n records.
C31_EachChunkOnce ==
    LET received == collector[1].received
        n == Len(Chunks(run[1]))
    IN  run[1].fn \in {"process", "process_reader"}
            => /\ \A k \in 1..Len(received) :
                     /\ received[k].ok
                     /\ received[k].index \in 0..(n - 1)
                     /\ received[k].hash = Blake3(ChunkOf(1, received[k]).data)
                     /\ IF run[1].fn = "process"
                        THEN /\ received[k].offset = ChunkOf(1, received[k]).offset
                             /\ received[k].length = ChunkOf(1, received[k]).length
                        ELSE received[k].chunk = ChunkOf(1, received[k]).data
               /\ \A j, k \in 1..Len(received) :
                     /\ j # k => received[j].index # received[k].index
                     /\ run[1].fn = "process"
                           => (received[j].index < received[k].index
                                  <=> received[j].offset < received[k].offset)
               /\ collector[1].pc = "ended"
                     => /\ Len(received) = n
                        /\ {received[k].index : k \in 1..Len(received)} = 0..(n - 1)

\* a stream of two chunks of different lengths has ended, the caller took the
\* later chunk first, and the other thread of the pool hashed along
C31_Witness ==
    /\ run[1].fn = "process"
    /\ run[1].num_threads >= 2
    /\ collector[1].pc = "ended"
    /\ Len(collector[1].received) = 2
    /\ collector[1].received[1].offset > collector[1].received[2].offset
    /\ collector[1].received[1].length # collector[1].received[2].length


\* the surviving event is a Create with the path list of the event before it
Pairs(s, i) == s[i + 1].kind = "Create" /\ s[i + 1].paths = s[i].paths

\* a Remove that is not followed directly by a Create with its path list has
\* yielded one logical Remove, and the event after it one logical event
BrokenPair(s) ==
    \A i \in 1..Len(s) :
        (s[i].kind = "Remove" /\ (i = Len(s) \/ ~Pairs(s, i)))
          => /\ Cardinality(DerivedFrom(s[i].time)) = 1
             /\ \A k \in DerivedFrom(s[i].time) :
                   /\ os_events[k].kind = "Remove"
                   /\ os_events[k].paths = Converted(s[i].paths)
             /\ i < Len(s) => Cardinality(DerivedFrom(s[i + 1].time)) = 1

\* Create(P), Remove(P) has yielded Create(P), Remove(P)
CreateThenRemove(s) ==
    (Len(s) = 2 /\ s[1].kind = "Create" /\ s[2].kind = "Remove"
        /\ s[1].paths = s[2].paths)
      => /\ Len(os_events) = 2
         /\ os_events[1].kind = "Create" /\ os_events[2].kind = "Remove"
         /\ os_events[1].paths = Converted(s[1].paths)
         /\ os_events[2].paths = Converted(s[2].paths)

\* Remove(P), X, Create(P) has yielded the three events Remove(P), X', Create(P)
ThreeEvents(s) ==
    /\ Len(os_events) = 3
    /\ os_events[1].kind = "Remove"
    /\ os_events[2].kind = From(s[2].kind)
    /\ os_events[3].kind = "Create"
    /\ \A k \in 1..3 : os_events[k].paths = Converted(s[k].paths)

\* C32 as stated: a Remove(P) whose next surviving event is not a Create with
\* the same path list yields a logical Remove(P) and that next event is
\* classified on its own; Remove(P), X, Create(P) with any X other than
\* Create(P) yields Remove(P), X', Create(P); Create(P), Remove(P) yields
\* Create(P), Remove(P).
C32_Stated ==
    main.received = "Ok"
        => LET s == Surviving(events)
           IN  /\ BrokenPair(s)
               /\ CreateThenRemove(s)
               /\ (Len(s) = 3 /\ s[1].kind = "Remove" /\ s[3].kind = "Create"
                     /\ s[3].paths = s[1].paths /\ ~Pairs(s, 1))
                    => ThreeEvents(s)

\* C32, amended: the same, where X is neither Create(P) nor a Remove with the
\* path list P (a Remove(P) in the middle pairs with the Create(P) after it:
\* the batch yields Remove(P), Update(P)).
C32_BrokenPair ==
    main.received = "Ok"
        => LET s == Surviving(events)
           IN  /\ BrokenPair(s)
               /\ CreateThenRemove(s)
               /\ (Len(s) = 3 /\ s[1].kind = "Remove" /\ s[3].kind = "Create"
                     /\ s[3].paths = s[1].paths /\ ~Pairs(s, 1)
                     /\ ~(s[2].kind = "Remove" /\ s[2].paths = s[1].paths))
                    => ThreeEvents(s)
               /\ (Len(s) = 3 /\ s[1].kind = "Remove" /\ s[3].kind = "Create"
                     /\ s[3].paths = s[1].paths
                     /\ s[2].kind = "Remove" /\ s[2].paths = s[1].paths)
                    => /\ Len(os_events) = 2
                       /\ os_events[1].kind = "Remove"
                       /\ os_events[2].kind = "Update"

\* a batch Remove(f), Modify(f), Create(f) was classified as Remove, Update,
\* Create
C32_Witness ==
    /\ main.received = "Ok"
    /\ Len(events) = 3
    /\ events[1].kind = "Remove" /\ events[1].paths = <<File>>
    /\ events[2].kind = "Modify" /\ events[2].paths = <<File>>
    /\ events[3].kind = "Create" /\ events[3].paths = <<File>>
    /\ Len(os_events) = 3
    /\ os_events[1].kind = "Remove"
    /\ os_events[3].kind = "Create"


\* the times of the raw events that contribute to the logical event k: the
\* event it was derived from, and for a collapsed Remove the surviving event
\* next to it
Contributes(k) ==
    LET s == Surviving(events)
        at == {i \in 1..Len(s) : s[i].time = os_events[k].time}
    IN  {os_events[k].time}
        \cup (IF os_events[k].kind = "Update" /\ RawAt(os_events[k].time).kind = "Remove"
              THEN {s[i + 1].time : i \in {j \in at : j < Len(s)}}
              ELSE {})

\* C33: the logical events an iteration of the watcher loop derives stand in
\* the arrival order of the raw events they come from: every logical event
\* comes from a surviving event of the batch, and when a raw event a arrived
\* before a raw event b, the logical event a contributes to is not after the
\* one b contributes to; so the events of one path keep their order.
C33_ArrivalOrder ==
    main.received = "Ok"
        => /\ \A k \in 1..Len(os_events) :
                 \E i \in 1..Len(Surviving(events)) :
                     Surviving(events)[i].time = os_events[k].time
           /\ \A ka, kb \in 1..Len(os_events) :
                 \A a \in Contributes(ka), b \in Contributes(kb) :
                     a < b => ka <= kb
           /\ \A ka, kb \in 1..Len(os_events) :
                 (os_events[ka].paths = os_events[kb].paths
                     /\ os_events[ka].time < os_events[kb].time) => ka < kb

\* a batch Remove(f), Create(f), Modify(g) was classified as Update(f) and
\* then Update(g)
C33_Witness ==
    /\ main.received = "Ok"
    /\ Len(events) = 3
    /\ events[1].kind = "Remove" /\ events[1].paths = <<File>>
    /\ events[2].kind = "Create" /\ events[2].paths = <<File>>
    /\ events[3].kind = "Modify" /\ events[3].paths = <<OtherFile>>
    /\ Len(os_events) = 2
    /\ os_events[1].time = 1
    /\ os_events[2].time = 3


\* the logical events that stand for a collapsed Remove / Create pair
Collapsed ==
    {k \in 1..Len(os_events) :
        os_events[k].kind = "Update" /\ RawAt(os_events[k].time).kind = "Remove"}

\* C34: in the batch an iteration of the watcher loop has classified, every
\* surviving raw event contributes to exactly one logical event, alone or as
\* one half of a collapsed Remove / Create pair, every logical event has its
\* one or two raw events, and the logical events number the surviving events
\* less the collapsed pairs; Remove(P), Remove(P), Create(P) yields Remove(P),
\* Update(P) and Remove(P), Create(P), Create(P) yields Update(P), Create(P).
C34_EachEventOnce ==
    main.received = "Ok"
        => LET s == Surviving(events)
           IN  /\ \A i \in 1..Len(s) :
                     Cardinality({k \in 1..Len(os_events) :
                                     s[i].time \in Contributes(k)}) = 1
               /\ \A k \in 1..Len(os_events) :
                     Cardinality(Contributes(k)) = IF k \in Collapsed THEN 2 ELSE 1
               /\ Len(os_events) = Len(s) - Cardinality(Collapsed)
               /\ (Len(s) = 3 /\ \A i \in 1..3 : s[i].paths = s[1].paths)
                    => /\ (s[1].kind = "Remove" /\ s[2].kind = "Remove"
                             /\ s[3].kind = "Create")
                          => /\ Len(os_events) = 2
                             /\ os_events[1].kind = "Remove"
                             /\ os_events[2].kind = "Update"
                       /\ (s[1].kind = "Remove" /\ s[2].kind = "Create"
                             /\ s[3].kind = "Create")
                          => /\ Len(os_events) = 2
                             /\ os_events[1].kind = "Update"
                             /\ os_events[2].kind = "Create"

\* a batch Remove(f), Create(f), Create(f) was classified as Update(f),
\* Create(f)
C34_Witness ==
    /\ main.received = "Ok"
    /\ Len(events) = 3
    /\ \A i \in 1..3 : events[i].paths = <<File>>
    /\ events[1].kind = "Remove"
    /\ events[2].kind = "Create"
    /\ events[3].kind = "Create"
    /\ Len(os_events) = 2
    /\ Collapsed = {1}


\* C35: collapsing never crosses a batch boundary: when the last surviving
\* event of the batch before was a Remove(P) and the first surviving event of
\* the batch an iteration has classified is a Create(P), the batch before has
\* yielded a logical Remove(P) as its last event and this batch a logical
\* Create(P) as its first, not an Update(P).
C35_BatchBoundary ==
    LET s == Surviving(events)
    IN  (/\ main.received = "Ok"
         /\ previous # <<>>
         /\ s # <<>>
         /\ s[1].kind = "Create"
         /\ Converted(s[1].paths) = previous[1].paths)
          => /\ previous[1].kind = "Remove"
             /\ os_events # <<>>
             /\ os_events[1].kind = "Create"
             /\ os_events[1].paths = previous[1].paths
             /\ os_events[1].time = s[1].time

\* the batch before ended with Remove(f); the batch Create(f) alone was
\* classified as Create(f)
C35_Witness ==
    /\ main.received = "Ok"
    /\ previous = <<[kind |-> "Remove", paths |-> <<<<"s", "f">>>>]>>
    /\ Len(events) = 1
    /\ events[1].kind = "Create"
    /\ events[1].paths = <<File>>
    /\ Len(os_events) = 1
    /\ os_events[1].kind = "Create"


\* C36: each write touches only its own table, and no fetch changes a row: a
\* store or store_all of files leaves chunks and file_sections as they were,
\* one of chunks leaves files and file_sections, one of sections leaves files
\* and chunks, and fetch_by and fetch_many of the three tables leave all
\* three.
C36_OwnTableOnly ==
    [][/\ last'.op \in {"store_file", "store_all_file"}
            => chunks' = chunks /\ sections' = sections
       /\ last'.op \in {"store_chunk", "store_all_chunk"}
            => files' = files /\ sections' = sections
       /\ last'.op \in {"store_section", "store_all_section"}
            => files' = files /\ chunks' = chunks
       /\ last'.op \in {"fetch_by_file", "fetch_many_file", "fetch_by_chunk",
                        "fetch_many_chunk", "fetch_by_section",
                        "fetch_many_section"}
            => files' = files /\ chunks' = chunks /\ sections' = sections]_vars

\* a file that has a section was stored again with a new name and path: the
\* row of the file was updated, its section and the chunk are still there
C36_Witness ==
    /\ last.op = "store_file"
    /\ last.result = "Ok"
    /\ \E o \in last.old : o.name # last.arg[1].name
    /\ last.arg[1] \in files
    /\ \E r \in sections :
          /\ r.file_id = last.arg[1].file_id
          /\ \E c \in chunks : c.hash = r.chunk_hash


\* C37: on a first run, when there is no config.toml, the start of the
\* service writes the default configuration, has .config in the default sync
\* directory, and leaves the debouncer watching that directory, so that an
\* event on a file below it can reach the loop.
C37_FirstRunWatches ==
    [][(main.pc = "start" /\ main'.pc = "recv" /\ disk.config_toml = <<>>)
          => /\ disk'.config_dir
             /\ disk'.config_toml = TomlToString(ServiceConfigDefault)
             /\ GetDefaultSyncPath \in watched'
             /\ \E dir \in watched' : IsUnder(Utf8Path(<<"s", "f">>), dir)]_vars


\* the batch main received last holds an event with a path that is not UTF-8
HasRawPath(batch) ==
    \E k \in 1..Len(batch) : \E j \in 1..Len(batch[k].paths) : ~batch[k].paths[j].utf8

\* C38: a batch with an event whose path is not valid UTF-8 is classified
\* like any other: build_events_iter returns its list and main goes on to
\* receive the next batch.
C38_RawPathSurvives ==
    (main.received = "Ok" /\ HasRawPath(events))
        => /\ ~BuildEventsIter(Filter(events), <<>>).panicked
           /\ main.pc = "recv"
           /\ main.exit = "none"


\* the ok records of the source of the call, and its error records
SourceRecords == Range(ChunkStream(RunOf(diff), NoCutter))

\* a record of the source differs from the manifest: its index is absent
\* from the manifest, or the digest under its index is another
Differs(record) ==
    \/ record.index \notin DOMAIN diff.manifest_map
    \/ diff.manifest_map[record.index].hash # record.hash

\* C39: calculate_diff returns exactly the records of the source that differ
\* from the manifest: a chunk whose index is in the manifest under an equal
\* digest is left out, a chunk whose index is absent or whose digest differs
\* is returned, and every error record is returned.
C39_ExactlyTheDifferences ==
    diff.pc = "returned"
        => Range(diff.result)
             = {record \in SourceRecords : ~record.ok \/ Differs(record)}

====
